---- MODULE Spec2Model ----
(***************************************************************************)
(* ShipSure PR risk pipeline: the batch driver (main.py), the per-PR       *)
(* orchestrator PRProcessor.process_pr with _run_tests_in_daytona          *)
(* (pr_processor.py), the shared TestRunner (test_runner.py), the bot      *)
(* tracker (github_client.py) and the scorer (gpt_analyzer.py).            *)
(*                                                                         *)
(* Text that the code inspects (logins, comment bodies, file paths, file   *)
(* contents) is a tuple of one-character strings; text that the code only  *)
(* stores or compares as a whole (error messages, finding names, raw       *)
(* output) is a TLA+ string.  A Python Optional is a tuple of length <= 1. *)
(***************************************************************************)
EXTENDS Integers, Sequences, FiniteSets, TLC

(* ------------------------------ bounds --------------------------------- *)
\* longest listing the batch driver iterates in Spec
MaxPRs == 1
\* length of the listing in SpecSandbox
SandboxPRs == 2
\* longest listing of the repository in SpecBatch
BatchPRs == 5
\* number of the first PR of the listing
FirstPR == 3

(* ------------------------------ Optional ------------------------------- *)
None == <<>>
Some(x) == <<x>>
IsNone(o) == o = <<>>
Get(o) == o[1]

(* ------------------------------ text ----------------------------------- *)
LowerAlpha == <<"a","b","c","d","e","f","g","h","i","j","k","l","m","n","o","p","q","r","s","t","u","v","w","x","y","z">>
UpperAlpha == <<"A","B","C","D","E","F","G","H","I","J","K","L","M","N","O","P","Q","R","S","T","U","V","W","X","Y","Z">>
Digits == <<"0","1","2","3","4","5","6","7","8","9">>

Range(s) == {s[k] : k \in 1..Len(s)}
IndexIn(c, alpha) == CHOOSE k \in 1..Len(alpha) : alpha[k] = c
IsUpper(c) == c \in Range(UpperAlpha)
IsLower(c) == c \in Range(LowerAlpha)
IsLetter(c) == IsUpper(c) \/ IsLower(c)
\* \w of the re module, and \s, over the characters the model uses
IsWordChar(c) == IsLetter(c) \/ c \in Range(Digits) \/ c = "_"
IsSpace(c) == c \in {" ", "\n"}
LowerChar(c) == IF IsUpper(c) THEN LowerAlpha[IndexIn(c, UpperAlpha)] ELSE c
UpperChar(c) == IF IsLower(c) THEN UpperAlpha[IndexIn(c, LowerAlpha)] ELSE c
\* str.lower()
Lower(s) == [k \in 1..Len(s) |-> LowerChar(s[k])]
\* `sub in s`
HasSub(s, sub) == \E p \in 1..(Len(s) - Len(sub) + 1) : SubSeq(s, p, p + Len(sub) - 1) = sub
\* s.endswith(suf)
EndsWith(s, suf) == Len(s) >= Len(suf) /\ SubSeq(s, Len(s) - Len(suf) + 1, Len(s)) = suf
\* s.replace(a, b) for a single character a
ReplaceChar(s, a, b) == [k \in 1..Len(s) |-> IF s[k] = a THEN b ELSE s[k]]
\* str.title(): a letter is upper-cased when it does not follow a letter
Title(s) == [k \in 1..Len(s) |-> IF k = 1 \/ ~IsLetter(s[k - 1]) THEN UpperChar(s[k]) ELSE LowerChar(s[k])]
RECURSIVE RemoveSub(_, _)
\* s.replace(sub, '') : leftmost non-overlapping occurrences
RemoveSub(s, sub) ==
  IF Len(s) < Len(sub) \/ Len(sub) = 0 THEN s
  ELSE IF SubSeq(s, 1, Len(sub)) = sub THEN RemoveSub(SubSeq(s, Len(sub) + 1, Len(s)), sub)
  ELSE <<s[1]>> \o RemoveSub(Tail(s), sub)
\* os.path.basename
Basename(p) ==
  LET slashes == {k \in 1..Len(p) : p[k] = "/"}
      last == IF slashes = {} THEN 0 ELSE CHOOSE k \in slashes : \A j \in slashes : j <= k
  IN SubSeq(p, last + 1, Len(p))

(* --------------------------- bot tracker ------------------------------- *)
BotMarker == <<"c","o","d","e","r","a","b","b","i","t">>
\* 'coderabbit' in login.lower()
IsBotLogin(login) == HasSub(Lower(login), BotMarker)

\* comment.get('user', {}).get('login', ''): the login of an item's author, ''
\* for an item without the key 'user', and no value at all for an item whose
\* 'user' is null (None has no attribute 'get': AttributeError)
LoginOf(c) ==
  IF "login" \in DOMAIN c THEN Some(c.login)
  ELSE IF "user" \in DOMAIN c THEN None
  ELSE Some(<<>>)

\* one of the three loops of check_coderabbit_review: "True" at the first bot
\* author, "AttributeError" at an item with a null user met before one, "next"
\* when the loop runs out
RECURSIVE ScanItems(_)
ScanItems(items) ==
  IF items = <<>> THEN "next"
  ELSE LET user == LoginOf(Head(items)) IN
       IF IsNone(user) THEN "AttributeError"
       ELSE IF IsBotLogin(Get(user)) THEN "True"
       ELSE ScanItems(Tail(items))

\* github_client.check_coderabbit_review: issue comments, then review comments,
\* then formal reviews; the first bot author on any of them answers "True"
check_coderabbit_review(s) ==
  LET a == ScanItems(s.issue) IN
  IF a # "next" THEN a
  ELSE LET b == ScanItems(s.review) IN
       IF b # "next" THEN b
       ELSE LET c == ScanItems(s.reviews) IN
            IF c # "next" THEN c ELSE "False"

IsBotComment(c) == IsBotLogin(c.login)
\* get_coderabbit_comments collecting the formal reviews as well
get_coderabbit_commentsWithReviews(s) ==
  SelectSeq(s.issue, IsBotComment) \o SelectSeq(s.review, IsBotComment) \o SelectSeq(s.reviews, IsBotComment)
\* github_client.get_coderabbit_comments: issue comments then review comments
get_coderabbit_comments(s) == SelectSeq(s.issue, IsBotComment) \o SelectSeq(s.review, IsBotComment)

(* ------------------------- companion PR search ------------------------- *)
RECURSIVE Str(_)
\* str(n) of a natural number
Str(n) == IF n < 10 THEN <<Digits[n + 1]>> ELSE Str(n \div 10) \o <<Digits[(n % 10) + 1]>>
\* lines 187-194: the keywords looked for in the title and the body
TestPrKeywords(original) ==
  { <<"u","n","i","t"," ","t","e","s","t">>, <<"t","e","s","t"," ","f","o","r"," ","p","r">>, <<"g","e","n","e","r","a","t","e","d"," ","t","e","s","t">>, <<"c","o","d","e","r","a","b","b","i","t">>,
    <<"p","r"," ","#">> \o Str(original), <<"p","r"," ">> \o Str(original) }
GenericBot == <<"b","o","t">>
\* lines 196-197: the author of a match is the bot, or any bot
ByBot(pr) == HasSub(Lower(pr.login), BotMarker) \/ HasSub(Lower(pr.login), GenericBot)
\* the author check left out
ByAnyone(pr) == TRUE
IsAuthorAccepted(pr) == ByBot(pr)
\* lines 187-197 for one PR whose body is a text
IsTestPr(pr, original) ==
  /\ \E kw \in TestPrKeywords(original) : HasSub(Lower(pr.title), kw) \/ HasSub(Lower(Get(pr.body)), kw)
  /\ IsAuthorAccepted(pr)
Found(pr) == [raised |-> FALSE, value |-> Some(pr)]
NotFound == [raised |-> FALSE, value |-> None]
AttributeError == [raised |-> TRUE, value |-> None]
RECURSIVE ScanPrs(_, _)
\* one of the two loops: pr.get('body', '').lower() raises for a PR whose body
\* is null, before the original PR is skipped
ScanPrs(listing, original) ==
  IF listing = <<>> THEN NotFound
  ELSE LET pr == Head(listing) IN
       IF IsNone(pr.body) THEN AttributeError
       ELSE IF pr.number = original THEN ScanPrs(Tail(listing), original)
       ELSE IF IsTestPr(pr, original) THEN Found(pr)
       ELSE ScanPrs(Tail(listing), original)
\* prs[:10]
ClosedScanned == 10
Recent(closed) == SubSeq(closed, 1, IF Len(closed) > ClosedScanned THEN ClosedScanned ELSE Len(closed))
\* github_client.find_coderabbit_test_pr on the two listings
find_coderabbit_test_pr(open, closed, original) ==
  LET first == ScanPrs(open, original) IN
  IF first # NotFound THEN first ELSE ScanPrs(Recent(closed), original)

(* --------------------------- classification ---------------------------- *)
DescLimit == 200
Ellipsis == <<".",".",".">>
DangerKeywords == {<<"e","r","r","o","r">>, <<"b","u","g">>, <<"s","e","c","u","r","i","t","y">>, <<"v","u","l","n","e","r","a","b","i","l","i","t","y">>}
WarningKeywords == {<<"w","a","r","n","i","n","g">>, <<"s","u","g","g","e","s","t","i","o","n">>, <<"i","m","p","r","o","v","e","m","e","n","t">>}
SuccessKeywords == {<<"g","o","o","d">>, <<"a","p","p","r","o","v","e","d">>, <<"p","a","s","s","e","d">>}
ReviewName == "Coderabbit Review"

AnyKeyword(body, kws) == \E kw \in kws : HasSub(body, kw)
\* ClassifyBody looking for the success words first
ClassifyBodySuccessFirst(body) ==
  LET b == Lower(body) IN
  IF AnyKeyword(b, SuccessKeywords) THEN "success"
  ELSE IF AnyKeyword(b, DangerKeywords) THEN "danger"
  ELSE IF AnyKeyword(b, WarningKeywords) THEN "warning"
  ELSE "info"
\* lines 139-146: the if / elif chain over body.lower()
ClassifyBody(body) ==
  LET b == Lower(body) IN
  IF AnyKeyword(b, DangerKeywords) THEN "danger"
  ELSE IF AnyKeyword(b, WarningKeywords) THEN "warning"
  ELSE IF AnyKeyword(b, SuccessKeywords) THEN "success"
  ELSE "info"
\* Describe putting the marker on a body of exactly DescLimit characters too
DescribeFromLimit(body) == IF Len(body) >= DescLimit THEN SubSeq(body, 1, DescLimit) \o Ellipsis ELSE body
\* line 136: body[:200] + "..." if len(body) > 200 else body
Describe(body) == IF Len(body) > DescLimit THEN SubSeq(body, 1, DescLimit) \o Ellipsis ELSE body
\* PRProcessor._extract_review_info: None for a non-bot author
extract_review_info(c) ==
  IF ~IsBotLogin(c.login) THEN None
  ELSE Some([name |-> ReviewName, type |-> ClassifyBody(c.body), description |-> Describe(c.body)])
RECURSIVE ExtractAll(_)
\* the loop of process_pr lines 62-65
ExtractAll(cs) ==
  IF cs = <<>> THEN <<>>
  ELSE LET info == extract_review_info(Head(cs)) IN
       (IF IsNone(info) THEN <<>> ELSE <<Get(info)>>) \o ExtractAll(Tail(cs))

(* ------------------------------ FileSet -------------------------------- *)
\* a Python dict path -> content, in insertion order: a sequence of
\* [path, content] with pairwise different paths
HasPath(fs, p) == \E k \in 1..Len(fs) : fs[k].path = p
PutFile(fs, f) ==
  IF HasPath(fs, f.path) THEN [k \in 1..Len(fs) |-> IF fs[k].path = f.path THEN f ELSE fs[k]]
  ELSE Append(fs, f)
RECURSIVE UpdateFiles(_, _)
\* dict.update(other)
UpdateFiles(fs, other) == IF other = <<>> THEN fs ELSE UpdateFiles(PutFile(fs, Head(other)), Tail(other))
\* {**test_files, **code_files}
MergeFilesCodeFirst(code, test) == UpdateFiles(test, code)
\* {**code_files, **test_files}
MergeFiles(code, test) == UpdateFiles(code, test)

(* ----------------------- generated test descriptors -------------------- *)
\* end (exclusive) of the longest run of characters satisfying P from q
RunEnd(s, q, P(_)) ==
  CHOOSE e \in q..(Len(s) + 1) : (\A k \in q..(e - 1) : P(s[k])) /\ (e = Len(s) + 1 \/ ~P(s[e]))
DefKw == <<"d","e","f">>
TestPrefix == <<"t","e","s","t","_">>
\* a match of def\s+(test_\w+) starting at p: [from, to] of the group, or None
DefMatchAt(s, p) ==
  IF p + 2 > Len(s) \/ SubSeq(s, p, p + 2) # DefKw THEN None
  ELSE LET e == RunEnd(s, p + 3, IsSpace) IN
       IF e = p + 3 \/ e + 4 > Len(s) \/ SubSeq(s, e, e + 4) # TestPrefix THEN None
       ELSE LET r == RunEnd(s, e + 5, IsWordChar) IN
            IF r = e + 5 THEN None ELSE Some([from |-> e, to |-> r - 1])
RECURSIVE FindTestFunctions(_, _)
\* re.findall(r'def\s+(test_\w+)', content), scanning from position p
FindTestFunctions(s, p) ==
  IF p > Len(s) THEN <<>>
  ELSE LET m == DefMatchAt(s, p) IN
       IF IsNone(m) THEN FindTestFunctions(s, p + 1)
       ELSE <<SubSeq(s, Get(m).from, Get(m).to)>> \o FindTestFunctions(s, Get(m).to + 1)
PyExt == <<".","p","y">>
TestWord == <<"t","e","s","t">>
DescriptorsOfFile(f) ==
  IF ~(HasSub(Lower(f.path), TestWord) /\ EndsWith(f.path, PyExt)) THEN <<>>
  ELSE LET fns == FindTestFunctions(f.content, 1) IN
       IF fns # <<>>
       THEN [k \in 1..Len(fns) |-> [test |-> Title(ReplaceChar(fns[k], "_", " ")),
                                    reason |-> "Generated by Coderabbit based on code analysis"]]
       ELSE <<[test |-> Title(RemoveSub(ReplaceChar(Basename(f.path), "_", " "), PyExt)),
               reason |-> "Generated by Coderabbit"]>>
RECURSIVE GeneratedTests(_)
\* the loop of _run_tests_in_daytona lines 211-228
GeneratedTests(fs) == IF fs = <<>> THEN <<>> ELSE DescriptorsOfFile(Head(fs)) \o GeneratedTests(Tail(fs))

(* ------------------------- command detection --------------------------- *)
SpecWord == <<"s","p","e","c">>
PytestWord == <<"p","y","t","e","s","t">>
UnittestWord == <<"u","n","i","t","t","e","s","t">>
PytestCommand == "python -m pytest"
UnittestCommand == "python -m unittest discover"
NpmCommand == "npm test"
MvnCommand == "mvn test"
\* detect_test_command looking at the JavaScript and Java tests first
detect_test_commandPyLast(files) ==
  LET tf == SelectSeq(files, LAMBDA f : HasSub(Lower(f.path), TestWord) \/ HasSub(Lower(f.path), SpecWord))
      anyExt(ext) == \E k \in 1..Len(tf) : EndsWith(tf[k].path, ext)
      anyText(w) == \E k \in 1..Len(tf) : HasSub(tf[k].content, w)
  IN IF anyExt(<<".","j","s">>) \/ anyExt(<<".","t","s">>) THEN NpmCommand
     ELSE IF anyExt(<<".","j","a","v","a">>) THEN MvnCommand
     ELSE IF anyText(PytestWord) THEN PytestCommand
     ELSE IF anyText(UnittestWord) /\ anyExt(PyExt) THEN UnittestCommand
     ELSE PytestCommand
\* run_tests_daytona.detect_test_command
detect_test_command(files) ==
  LET tf == SelectSeq(files, LAMBDA f : HasSub(Lower(f.path), TestWord) \/ HasSub(Lower(f.path), SpecWord))
      anyExt(ext) == \E k \in 1..Len(tf) : EndsWith(tf[k].path, ext)
      anyText(w) == \E k \in 1..Len(tf) : HasSub(tf[k].content, w)
  IN IF anyExt(PyExt)
     THEN (IF anyText(PytestWord) THEN PytestCommand
           ELSE IF anyText(UnittestWord) THEN UnittestCommand
           ELSE PytestCommand)
     ELSE IF anyExt(<<".","j","s">>) \/ anyExt(<<".","t","s">>) THEN NpmCommand
     ELSE IF anyExt(<<".","j","a","v","a">>) THEN MvnCommand
     ELSE PytestCommand

(* --------------------------- import extraction ------------------------- *)
RECURSIVE Split(_, _)
\* s.split(ch) for a single character ch
Split(s, ch) ==
  IF ch \notin Range(s) THEN <<s>>
  ELSE LET p == CHOOSE k \in 1..Len(s) : s[k] = ch /\ \A j \in 1..(k - 1) : s[j] # ch
       IN <<SubSeq(s, 1, p - 1)>> \o Split(SubSeq(s, p + 1, Len(s)), ch)
\* s.strip()
Strip(s) ==
  LET keep == {k \in 1..Len(s) : ~IsSpace(s[k])} IN
  IF keep = {} THEN <<>>
  ELSE SubSeq(s, CHOOSE k \in keep : \A j \in keep : k <= j, CHOOSE k \in keep : \A j \in keep : j <= k)
StartsWith(s, pre) == Len(s) >= Len(pre) /\ SubSeq(s, 1, Len(pre)) = pre
IsIdentStart(c) == IsLetter(c) \/ c = "_"
IsDot(c) == c = "."
RECURSIVE DottedEnd(_, _)
\* end (exclusive) of ident(\.ident)* starting at q, where s[q] starts an identifier
DottedEnd(s, q) ==
  LET e == RunEnd(s, q, IsWordChar) IN
  IF e + 1 <= Len(s) /\ s[e] = "." /\ IsIdentStart(s[e + 1]) THEN DottedEnd(s, e + 1) ELSE e
\* the leading dotted identifier of s, empty when s does not start with one
DottedPrefix(s) == IF s = <<>> \/ ~IsIdentStart(s[1]) THEN <<>> ELSE SubSeq(s, 1, DottedEnd(s, 1) - 1)
\* the module path alone
WithoutFirstSegment(m) == {m}
\* the module path and, when dotted, its first segment
WithFirstSegment(m) == IF "." \in Range(m) THEN {m, Split(m, ".")[1]} ELSE {m}
ImportKw == <<"i","m","p","o","r","t"," ">>
FromKw == <<"f","r","o","m"," ">>
FromWord == <<"f","r","o","m">>
\* the modules one statement contributes on the syntax-tree walk:
\* ast.Import gives every alias name, ast.ImportFrom gives node.module if any
AstModulesOfLine(line) ==
  LET l == Strip(line) IN
  IF StartsWith(l, ImportKw)
  THEN LET aliases == Split(SubSeq(l, Len(ImportKw) + 1, Len(l)), ",")
       IN {DottedPrefix(Strip(aliases[k])) : k \in 1..Len(aliases)} \ {<<>>}
  ELSE IF StartsWith(l, FromKw)
  THEN LET rest == Strip(SubSeq(l, Len(FromKw) + 1, Len(l)))
           d == RunEnd(rest, 1, IsDot)
       IN {DottedPrefix(SubSeq(rest, d, Len(rest)))} \ {<<>>}
  ELSE {}
\* group 1 of re.match(r'^(?:from\s+)?([a-zA-Z_][a-zA-Z0-9_]*(?:\.[a-zA-Z_][a-zA-Z0-9_]*)*)', line.strip())
RegexModulesOfLine(line) ==
  LET l == Strip(line)
      e == IF StartsWith(l, FromWord) THEN RunEnd(l, 5, IsSpace) ELSE 0
  IN IF e > 5 /\ e <= Len(l) /\ IsIdentStart(l[e])
     THEN {DottedPrefix(SubSeq(l, e, Len(l)))}
     ELSE {DottedPrefix(l)} \ {<<>>}
\* a line on which ast.parse raises SyntaxError
BrokenLine == <<"d","e","f"," ","t","e","s","t","_","x","(",":">>
SyntaxOK(content) == BrokenLine \notin Range(Split(content, "\n"))
ModulesOfFile(f) ==
  IF ~EndsWith(f.path, PyExt) THEN {}
  ELSE LET lines == Split(f.content, "\n")
           found == IF SyntaxOK(f.content)
                    THEN UNION {AstModulesOfLine(lines[k]) : k \in 1..Len(lines)}
                    ELSE UNION {RegexModulesOfLine(lines[k]) : k \in 1..Len(lines)}
       IN UNION {WithFirstSegment(m) : m \in found}
\* run_tests_daytona.parse_imports_from_test_files
parse_imports_from_test_files(fs) == UNION {ModulesOfFile(fs[k]) : k \in 1..Len(fs)}

(* ------------------------------ scorer --------------------------------- *)
\* gpt_analyzer.analyze_pr's fallback record
DefaultRisk == 50
DefaultAnalysis ==
  [kind |-> "object", risk |-> Some(DefaultRisk), confidence |-> Some(0),
   reasoning |-> Some("Error in GPT analysis: call failed"), reviewUpdates |-> None]
\* a parsed model response: a JSON object with optional members, or another JSON value
Response(risk, updates) ==
  [kind |-> "object", risk |-> risk, confidence |-> Some(70), reasoning |-> Some("ok"), reviewUpdates |-> updates]
Obj(members) == [kind |-> "object", members |-> members]
Member(k, v) == [key |-> k, value |-> v]
JNumber == [kind |-> "number"]
JArray(items) == [kind |-> "array", items |-> items]
JPair(k, v) == [kind |-> "pair", key |-> k, value |-> v]

RECURSIVE PutMembers(_, _)
PutMembers(review, members) ==
  IF members = <<>> THEN review
  ELSE PutMembers((Head(members).key :> Head(members).value) @@ review, Tail(members))
RECURSIVE PutPairs(_, _)
\* dict.update(iterable): pairs are stored one by one until an element is not a pair
PutPairs(review, items) ==
  IF items = <<>> THEN [review |-> review, raised |-> FALSE]
  ELSE IF Head(items).kind # "pair" THEN [review |-> review, raised |-> TRUE]
  ELSE PutPairs((Head(items).key :> Head(items).value) @@ review, Tail(items))
\* review.update(v), line 115
dict_update(review, v) ==
  IF v.kind = "object" THEN [review |-> PutMembers(review, v.members), raised |-> FALSE]
  ELSE IF v.kind = "array" THEN PutPairs(review, v.items)
  ELSE [review |-> review, raised |-> TRUE]
HasKey(obj, k) == \E j \in 1..Len(obj.members) : obj.members[j].key = k
\* obj[k]: the last member with that key, as json.loads keeps it
ValueAt(obj, k) ==
  obj.members[CHOOSE j \in 1..Len(obj.members) :
                 obj.members[j].key = k /\ \A h \in (j + 1)..Len(obj.members) : obj.members[h].key # k].value
RECURSIVE UpdateReviews(_, _, _)
\* the loop of lines 113-115 from index k on; a name is never an item of the
\* arrays considered (pairs and numbers), and "in" raises on a number
UpdateReviews(reviews, updates, k) ==
  IF k > Len(reviews) THEN [reviews |-> reviews, raised |-> FALSE]
  ELSE IF IsNone(updates) THEN [reviews |-> reviews, raised |-> FALSE]
  ELSE IF Get(updates).kind = "array" THEN UpdateReviews(reviews, updates, k + 1)
  ELSE IF Get(updates).kind # "object" THEN [reviews |-> reviews, raised |-> TRUE]
  ELSE IF ~HasKey(Get(updates), reviews[k].name) THEN UpdateReviews(reviews, updates, k + 1)
  ELSE LET u == dict_update(reviews[k], ValueAt(Get(updates), reviews[k].name))
           rs == [reviews EXCEPT ![k] = u.review]
       IN IF u.raised THEN [reviews |-> rs, raised |-> TRUE] ELSE UpdateReviews(rs, updates, k + 1)
GptErrorMsg == "analysis failed"
\* ApplyAnalysis keeping only the findings an entry of reviewUpdates names
ApplyAnalysisDropUnmatched(res, analysis) ==
  IF analysis.kind # "object" THEN ("gptError" :> GptErrorMsg) @@ res
  ELSE LET r1 == [res EXCEPT !.risk = IF IsNone(analysis.risk) THEN 0 ELSE Get(analysis.risk)]
           u == UpdateReviews(r1.coderabbitReviews, analysis.reviewUpdates, 1)
           Named(f) == ~IsNone(analysis.reviewUpdates) /\ Get(analysis.reviewUpdates).kind = "object"
                          /\ HasKey(Get(analysis.reviewUpdates), f.name)
           r2 == [r1 EXCEPT !.coderabbitReviews = SelectSeq(u.reviews, Named)]
       IN IF u.raised THEN ("gptError" :> GptErrorMsg) @@ r2 ELSE r2
\* process_pr lines 110-119 applied to the value analyze_pr returned
ApplyAnalysis(res, analysis) ==
  IF analysis.kind # "object" THEN ("gptError" :> GptErrorMsg) @@ res
  ELSE LET r1 == [res EXCEPT !.risk = IF IsNone(analysis.risk) THEN 0 ELSE Get(analysis.risk)]
           u == UpdateReviews(r1.coderabbitReviews, analysis.reviewUpdates, 1)
           r2 == [r1 EXCEPT !.coderabbitReviews = u.reviews]
       IN IF u.raised THEN ("gptError" :> GptErrorMsg) @@ r2 ELSE r2

(* ---------------------- inputs the collaborators supply ---------------- *)
BotLogin == <<"c","o","d","e","r","a","b","b","i","t","a","i","[","b","o","t","]">>
Comment(login, text) == [login |-> login, body |-> text]
NoSurfaces == [issue |-> <<>>, review |-> <<>>, reviews |-> <<>>]
\* the three comment surfaces of a PR
SurfaceCases ==
  { NoSurfaces,
    [issue |-> <<Comment(BotLogin, <<"L","G","T","M",","," ","a","p","p","r","o","v","e","d">>)>>, review |-> <<>>, reviews |-> <<>>],
    [issue |-> <<Comment(<<"a","l","i","c","e">>, <<"p","l","e","a","s","e"," ","f","i","x"," ","t","h","e"," ","b","u","g">>), Comment(BotLogin, <<"N","i","c","e"," ","i","m","p","r","o","v","e","m","e","n","t">>)>>,
     review |-> <<Comment(<<"C","o","d","e","R","a","b","b","i","t","A","I">>, <<"P","o","s","s","i","b","l","e"," ","s","e","c","u","r","i","t","y"," ","i","s","s","u","e">>)>>,
     reviews |-> <<Comment(BotLogin, <<"R","e","v","i","e","w","e","d">>)>>],
    [issue |-> <<Comment(<<"a","l","i","c","e">>, <<"p","l","e","a","s","e"," ","f","i","x"," ","t","h","e"," ","b","u","g">>)>>, review |-> <<>>,
     reviews |-> <<Comment(BotLogin, <<"R","e","v","i","e","w","e","d">>)>>] }
\* the PR record of the code-hosting API; its body is null for a PR without description
PrInfoCases == {[title |-> "Add payment", html_url |-> "url", body |-> b] : b \in {None, Some("desc")}}
File(p, c) == [path |-> p, content |-> c]
CodeFile == File(<<"p","a","y","m","e","n","t","/","p","r","o","c","e","s","s","o","r",".","p","y">>, <<"d","e","f"," ","p","a","y","(",")",":"," ","p","a","s","s">>)
CodeFileCases == {<<CodeFile>>}
TestFileCases ==
  { <<>>,
    <<File(<<"t","e","s","t","s","/","t","e","s","t","_","p","r","o","c","e","s","s","o","r",".","p","y">>, <<"i","m","p","o","r","t"," ","p","y","t","e","s","t","\n","f","r","o","m"," ","p","a","y","m","e","n","t",".","p","r","o","c","e","s","s","o","r"," ","i","m","p","o","r","t"," ","p","a","y","\n","d","e","f"," ","t","e","s","t","_","p","a","y","(",")",":"," ","p","a","s","s">>)>>,
    <<File(<<"t","e","s","t","s","/","t","e","s","t","_","m","i","s","c",".","p","y">>, <<"x"," ","="," ","1">>)>> }
SourceFileCases == {<<>>, <<File(<<"p","a","y","m","e","n","t","/","_","_","i","n","i","t","_","_",".","p","y">>, <<>>)>>}
ExitCodes == {0, 1}
Outputs == {"3 passed"}
\* values json.loads can return for the model's answer
Analyses ==
  { Response(Some(80), Some(Obj(<<Member(ReviewName, Obj(<<Member("risk", 80), Member("type", "danger"),
                                                            Member("description", <<"t","o","u","c","h","e","s"," ","a","u","t","h">>)>>))>>))),
    Response(Some(150), Some(Obj(<<Member("Other Review", Obj(<<Member("type", "warning")>>))>>))),
    Response(None, Some(Obj(<<Member(ReviewName, JNumber)>>))),
    Response(Some(60), Some(Obj(<<Member(ReviewName, JArray(<<JPair("type", "danger"), JNumber>>))>>))),
    JArray(<<>>) }
\* the test command ran for this many seconds
Durations == {1, 301}
\* every answer enumerated above
AnyWorld ==
  [surfaces |-> SurfaceCases, test_files |-> TestFileCases, source_files |-> SourceFileCases,
   analyses |-> Analyses, durations |-> Durations]
\* a repository whose PRs all look alike: one bot comment, one test file with
\* an import, one resolved source file, one well-formed answer of the model
PlainWorld ==
  [surfaces |-> {[issue |-> <<Comment(BotLogin, <<"L","G","T","M",","," ","a","p","p","r","o","v","e","d">>)>>, review |-> <<>>, reviews |-> <<>>]},
   test_files |-> {<<>>, <<File(<<"t","e","s","t","s","/","t","e","s","t","_","p","r","o","c","e","s","s","o","r",".","p","y">>,
                                <<"i","m","p","o","r","t"," ","p","y","t","e","s","t","\n","f","r","o","m"," ","p","a","y","m","e","n","t",".","p","r","o","c","e","s","s","o","r"," ","i","m","p","o","r","t"," ","p","a","y","\n","d","e","f"," ","t","e","s","t","_","p","a","y","(",")",":"," ","p","a","s","s">>)>>},
   source_files |-> {<<File(<<"p","a","y","m","e","n","t","/","_","_","i","n","i","t","_","_",".","p","y">>, <<>>)>>},
   analyses |-> {Response(Some(150), Some(Obj(<<Member("Other Review", Obj(<<Member("type", "warning")>>))>>)))},
   durations |-> Durations]
\* the answers enumerated for a listing: every case for a single PR, PRs that
\* all look alike for a longer listing
WorldFor(listing) == IF Len(listing) <= 1 THEN AnyWorld ELSE PlainWorld
\* companion PR number the search returns for PR n
CompanionOf(n) == n + 100

(* ------------------------------- state --------------------------------- *)
VARIABLES
  prs,            \* main: the listing being iterated
  skip_tests,     \* --skip-tests
  skip_gpt,       \* --skip-gpt
  has_runner,     \* PRProcessor.test_runner is not None
  has_analyzer,   \* PRProcessor.gpt_analyzer is not None
  mpc,            \* main: "loop", "in_pr", "exit0", "exit1"
  i,              \* main: enumerate index of the current PR
  pullRequests,   \* main: results["pullRequests"]
  saved,          \* the pullRequests list of the last document written
  ppc,            \* process_pr: position
  pr_info,        \* process_pr: pr_info
  surfaces,       \* the comment surfaces of the current PR
  result,         \* process_pr: result
  test_pr,        \* process_pr: number of the companion PR
  code_files,     \* _run_tests_in_daytona: code_files
  test_files,     \* _run_tests_in_daytona: test_files
  rt,             \* _run_tests_in_daytona: result
  pending,        \* message of the exception in flight
  sandbox,        \* TestRunner.sandbox: handle of the last sandbox created
  sandboxes,      \* every sandbox the service created, by handle
  trace,          \* collaborator calls of the current process_pr run, in order
  scorer_args,    \* arguments of the analyze_pr call of the current run
  scored,         \* enumerate indices of the PRs whose analyze_pr call returned
  args,           \* main: the parsed command line (repo, max_prs)
  environ,        \* names of the credentials present in the environment
  repo_prs,       \* the PR listing the code-hosting service holds
  world,          \* the answers the collaborators can give in this run
  fn_arg,         \* argument of the function applied on its own
  fn_ret          \* value it returned

cfgVars == <<prs, skip_tests, skip_gpt, has_runner, has_analyzer>>
envVars == <<args, environ, repo_prs, world>>
fnVars == <<fn_arg, fn_ret>>
mainVars == <<mpc, i, pullRequests, saved>>
runVars == <<code_files, test_files, rt>>
sbVars == <<sandbox, sandboxes>>
vars == <<prs, skip_tests, skip_gpt, has_runner, has_analyzer, mpc, i, pullRequests, saved, ppc,
          pr_info, surfaces, result, test_pr, code_files, test_files, rt, pending, sandbox,
          sandboxes, trace, scorer_args, scored, args, environ, repo_prs, world, fn_arg, fn_ret>>

Listing(n) == [k \in 1..n |-> [number |-> FirstPR + k - 1, title |-> "Add payment", html_url |-> "url"]]
NoInfo == [title |-> "", html_url |-> "", body |-> None]
NoResult == [id |-> 0]
\* _run_tests_in_daytona lines 165-170
InitialRun == [status |-> "unknown", exitCode |-> None, output |-> "", generatedTests |-> <<>>]
\* checkpoint period of main line 157
SaveEvery == 5

\* the credentials the three clients read
GithubKey == "GITHUB_TOKEN"
DaytonaKey == "DAYTONA_API_KEY"
OpenAIKey == "OPENAI_API_KEY"
AllKeys == {GithubKey, DaytonaKey, OpenAIKey}
GoodRepo == <<"o","w","n","e","r","/","r","e","p","o">>

\* nothing processed yet, no call in progress
InitLocals ==
  /\ i = 1
  /\ pullRequests = <<>>
  /\ saved = None
  /\ ppc = "idle"
  /\ pr_info = NoInfo
  /\ surfaces = NoSurfaces
  /\ result = NoResult
  /\ test_pr = None
  /\ code_files = <<>>
  /\ test_files = <<>>
  /\ rt = InitialRun
  /\ pending = None
  /\ sandbox = None
  /\ sandboxes = <<>>
  /\ trace = <<>>
  /\ scorer_args = None
  /\ scored = {}

\* main has parsed the command line, built the clients and listed the PRs
Init ==
  /\ prs \in {Listing(n) : n \in 0..MaxPRs}
  /\ skip_tests \in BOOLEAN
  /\ skip_gpt \in BOOLEAN
  /\ has_runner \in BOOLEAN
  /\ has_analyzer \in BOOLEAN
  /\ mpc = "loop"
  /\ args = [repo |-> GoodRepo, max_prs |-> None]
  /\ environ = AllKeys
  /\ repo_prs = prs
  /\ world = WorldFor(prs)
  /\ InitLocals
  /\ fn_arg = None
  /\ fn_ret = None

Event(op, ok) == [op |-> op, ok |-> ok]
Log(op, ok) == trace' = Append(trace, Event(op, ok))
\* the locals of a finished process_pr call
ResetLocals ==
  /\ pr_info' = NoInfo
  /\ surfaces' = NoSurfaces
  /\ result' = NoResult
  /\ test_pr' = None
  /\ code_files' = <<>>
  /\ test_files' = <<>>
  /\ rt' = InitialRun
  /\ pending' = None
  /\ trace' = <<>>
  /\ scorer_args' = None

(* ------------------------------- main ---------------------------------- *)
\* everything process_pr and the functions below it work on
procVars == <<ppc, pr_info, surfaces, result, test_pr, runVars, pending, sbVars, trace, scorer_args, scored,
              fnVars>>

\* parse_repo_name lines 49-54: owner and repo, or none where ValueError is raised
parse_repo_name(repo_name) ==
  LET parts == Split(repo_name, "/") IN
  IF "/" \in Range(repo_name) /\ Len(parts) = 2 THEN Some([owner |-> parts[1], repo |-> parts[2]])
  ELSE None

\* main lines 85-90
ParseRepoName ==
  /\ mpc = "start"
  /\ IF IsNone(parse_repo_name(args.repo))
     THEN mpc' = "exit1" /\ pending' = Some("Invalid repo format")
     ELSE mpc' = "init_clients" /\ pending' = pending
  /\ UNCHANGED <<envVars, cfgVars, i, pullRequests, saved, ppc, pr_info, surfaces, result, test_pr, runVars,
                 sbVars, trace, scorer_args, scored, fnVars>>

\* RequiredKeys asking for the code-hosting token only
RequiredKeysTokenOnly == {GithubKey}
\* main lines 103-105 with the three constructors: the credentials that must
\* be present for the clients to be built
RequiredKeys ==
  {GithubKey} \cup (IF skip_tests THEN {} ELSE {DaytonaKey}) \cup (IF skip_gpt THEN {} ELSE {OpenAIKey})

\* main lines 103-113, 189-191: a constructor without its credential raises
InitClients ==
  /\ mpc = "init_clients"
  /\ IF RequiredKeys \subseteq environ
     THEN /\ has_runner' = ~skip_tests
          /\ has_analyzer' = ~skip_gpt
          /\ mpc' = "list_prs"
          /\ pending' = pending
     ELSE /\ mpc' = "exit1"
          /\ pending' = Some("API key is required")
          /\ UNCHANGED <<has_runner, has_analyzer>>
  /\ UNCHANGED <<envVars, prs, skip_tests, skip_gpt, i, pullRequests, saved, ppc, pr_info, surfaces, result,
                 test_pr, runVars, sbVars, trace, scorer_args, scored, fnVars>>

\* the code-hosting service knows no repository with an empty owner or name
RepoExists(r) == r.owner # <<>> /\ r.repo # <<>>
\* line 126-127: prs[:max_prs] when max_prs is given and not 0
Truncate(listing, max_prs) ==
  IF IsNone(max_prs) \/ Get(max_prs) = 0 THEN listing
  ELSE SubSeq(listing, 1, IF Get(max_prs) < Len(listing) THEN Get(max_prs) ELSE Len(listing))

\* main lines 118-129, 189-191 and GitHubAPIClient.list_prs
ListPrs ==
  /\ mpc = "list_prs"
  /\ \E ok \in BOOLEAN :
       IF ok /\ RepoExists(Get(parse_repo_name(args.repo)))
       THEN prs' = Truncate(repo_prs, args.max_prs) /\ mpc' = "loop" /\ pending' = pending
       ELSE prs' = prs /\ mpc' = "exit1" /\ pending' = Some("list_prs failed")
  /\ UNCHANGED <<envVars, skip_tests, skip_gpt, has_runner, has_analyzer, i, pullRequests, saved, ppc, pr_info,
                 surfaces, result, test_pr, runVars, sbVars, trace, scorer_args, scored, fnVars>>

\* main lines 138-152: the next PR of the listing is handed to process_pr
StartPR ==
  /\ mpc = "loop" /\ i <= Len(prs)
  /\ mpc' = "in_pr"
  /\ ppc' = "get_pr_info"
  /\ UNCHANGED <<envVars, fnVars, scored, cfgVars, i, pullRequests, saved, pr_info, surfaces, result, test_pr, runVars, pending,
                 sbVars, trace, scorer_args>>

\* main lines 164-170
ErrorEntry(pr, msg) ==
  [id |-> pr.number, title |-> pr.title, link |-> pr.html_url, error |-> msg, risk |-> 0]

\* main lines 154-159 (and 161-170 when the checkpoint save raises)
AppendResult ==
  /\ mpc = "in_pr" /\ ppc = "return"
  /\ \E save_ok \in BOOLEAN :
       LET due == i % SaveEvery = 0
           appended == Append(pullRequests, result)
       IN /\ pullRequests' = IF due /\ ~save_ok THEN Append(appended, ErrorEntry(prs[i], "save failed"))
                             ELSE appended
          /\ saved' = IF due /\ save_ok THEN Some(appended) ELSE saved
  /\ i' = i + 1
  /\ mpc' = "loop"
  /\ ppc' = "idle"
  /\ ResetLocals
  /\ UNCHANGED <<envVars, fnVars, scored, cfgVars, sbVars>>

\* AfterCatch giving up on the batch
AfterCatchAbort == "exit1"
\* lines 138, 161-170: the handler falls through to the next iteration
AfterCatch == "loop"

\* main lines 161-170: process_pr raised
CatchError ==
  /\ mpc = "in_pr" /\ ppc = "raised"
  /\ pullRequests' = Append(pullRequests, ErrorEntry(prs[i], Get(pending)))
  /\ i' = i + 1
  /\ mpc' = AfterCatch
  /\ ppc' = "idle"
  /\ ResetLocals
  /\ UNCHANGED <<envVars, fnVars, scored, cfgVars, saved, sbVars>>

\* main lines 172-191: the final save; a failure is fatal
FinalSave ==
  /\ mpc = "loop" /\ i > Len(prs)
  /\ \E save_ok \in BOOLEAN :
       /\ saved' = IF save_ok THEN Some(pullRequests) ELSE saved
       /\ mpc' = IF save_ok THEN "exit0" ELSE "exit1"
  /\ UNCHANGED <<envVars, fnVars, scored, cfgVars, i, pullRequests, ppc, pr_info, surfaces, result, test_pr, runVars, pending,
                 sbVars, trace, scorer_args>>

(* ----------------------------- process_pr ------------------------------ *)
\* InitialResult with a nonzero starting risk
InitialResultRisky(n, info) ==
  [id |-> n, title |-> info.title, link |-> info.html_url, risk |-> DefaultRisk,
   coderabbitReviews |-> <<>>, generatedTests |-> <<>>, testResults |-> None]
\* process_pr lines 43-51
InitialResult(n, info) ==
  [id |-> n, title |-> info.title, link |-> info.html_url, risk |-> 0,
   coderabbitReviews |-> <<>>, generatedTests |-> <<>>, testResults |-> None]
\* AfterTests without the skip_gpt test
AfterTestsIgnoringOptOut == IF has_analyzer THEN "analyze" ELSE "return"
\* line 100: where control goes once the test block is over
AfterTests == IF ~skip_gpt /\ has_analyzer THEN "analyze" ELSE "return"
\* AfterBotCheck without the skip_tests test
AfterBotCheckIgnoringOptOut == IF has_runner THEN "trigger" ELSE AfterTests
\* line 68: where control goes once the bot check is over
AfterBotCheck == IF ~skip_tests /\ has_runner THEN "trigger" ELSE AfterTests
\* AfterTestError retrying the test block
AfterTestErrorRetry == "trigger"
\* lines 95-97: where control goes after the handler of the test block
AfterTestError == AfterTests
\* lines 117-119: where control goes after the handler of the scoring block
AfterGptError == "return"
\* AfterTrigger without the grace period
AfterTriggerNoWait == "find_test_pr"
\* line 76: where control goes after a successful trigger
AfterTrigger == "sleep"
\* AfterNoTestPr entering sandbox execution all the same
AfterNoTestPrRun == "prepare_code"
\* lines 81-93: where control goes when no companion PR was found
AfterNoTestPr == AfterTests
\* an exception that process_pr does not catch
Raise(msg) == ppc' = "raised" /\ pending' = Some(msg)
\* TestError forgetting to record the message
TestErrorDropped(msg) == result' = result /\ ppc' = AfterTestError
\* lines 95-97
TestError(msg) == result' = ("testError" :> msg) @@ result /\ ppc' = AfterTestError
\* lines 117-119
GptError(res) == ("gptError" :> GptErrorMsg) @@ res

\* line 41
GetPrInfoOk ==
  /\ ppc = "get_pr_info"
  /\ \E info \in PrInfoCases :
       /\ pr_info' = info
       /\ result' = InitialResult(prs[i].number, info)
  /\ ppc' = "check_review"
  /\ Log("get_pr_info", TRUE)
  /\ UNCHANGED <<envVars, fnVars, scored, cfgVars, mainVars, surfaces, test_pr, runVars, pending, sbVars, scorer_args>>

GetPrInfoRaise ==
  /\ ppc = "get_pr_info"
  /\ Raise("get_pr_info failed")
  /\ Log("get_pr_info", FALSE)
  /\ UNCHANGED <<envVars, fnVars, scored, cfgVars, mainVars, pr_info, surfaces, result, test_pr, runVars, sbVars, scorer_args>>

\* lines 55-57
CheckReviewOk ==
  /\ ppc = "check_review"
  /\ \E s \in world.surfaces :
       /\ check_coderabbit_review(s) # "AttributeError"
       /\ surfaces' = s
       /\ ppc' = IF check_coderabbit_review(s) = "True" THEN "get_comments" ELSE AfterBotCheck
  /\ Log("check_coderabbit_review", TRUE)
  /\ UNCHANGED <<envVars, fnVars, scored, cfgVars, mainVars, pr_info, result, test_pr, runVars, pending, sbVars, scorer_args>>

CheckReviewRaise ==
  /\ ppc = "check_review"
  /\ Raise("check_coderabbit_review failed")
  /\ Log("check_coderabbit_review", FALSE)
  /\ UNCHANGED <<envVars, fnVars, scored, cfgVars, mainVars, pr_info, surfaces, result, test_pr, runVars, sbVars, scorer_args>>

\* lines 58-65
GetCommentsOk ==
  /\ ppc = "get_comments"
  /\ result' = [result EXCEPT !.coderabbitReviews = ExtractAll(get_coderabbit_comments(surfaces))]
  /\ ppc' = AfterBotCheck
  /\ Log("get_coderabbit_comments", TRUE)
  /\ UNCHANGED <<envVars, fnVars, scored, cfgVars, mainVars, pr_info, surfaces, test_pr, runVars, pending, sbVars, scorer_args>>

GetCommentsRaise ==
  /\ ppc = "get_comments"
  /\ Raise("get_coderabbit_comments failed")
  /\ Log("get_coderabbit_comments", FALSE)
  /\ UNCHANGED <<envVars, fnVars, scored, cfgVars, mainVars, pr_info, surfaces, result, test_pr, runVars, sbVars, scorer_args>>

\* lines 71-72
TriggerOk ==
  /\ ppc = "trigger"
  /\ ppc' = AfterTrigger
  /\ Log("trigger_unit_test_generation", TRUE)
  /\ UNCHANGED <<envVars, fnVars, scored, cfgVars, mainVars, pr_info, surfaces, result, test_pr, runVars, pending, sbVars, scorer_args>>

TriggerRaise ==
  /\ ppc = "trigger"
  /\ TestError("trigger_unit_test_generation failed")
  /\ Log("trigger_unit_test_generation", FALSE)
  /\ UNCHANGED <<envVars, fnVars, scored, cfgVars, mainVars, pr_info, surfaces, test_pr, runVars, pending, sbVars, scorer_args>>

\* line 76
Sleep ==
  /\ ppc = "sleep"
  /\ ppc' = "find_test_pr"
  /\ Log("sleep", TRUE)
  /\ UNCHANGED <<envVars, fnVars, scored, cfgVars, mainVars, pr_info, surfaces, result, test_pr, runVars, pending, sbVars, scorer_args>>

\* lines 79-87: a companion PR is found and _run_tests_in_daytona is entered
FindTestPrFound ==
  /\ ppc = "find_test_pr"
  /\ test_pr' = Some(CompanionOf(prs[i].number))
  /\ rt' = InitialRun
  /\ ppc' = "prepare_code"
  /\ Log("find_coderabbit_test_pr", TRUE)
  /\ UNCHANGED <<envVars, fnVars, scored, cfgVars, mainVars, pr_info, surfaces, result, code_files, test_files, pending, sbVars,
                 scorer_args>>

\* lines 79-81, 92-93
FindTestPrNone ==
  /\ ppc = "find_test_pr"
  /\ ppc' = AfterNoTestPr
  /\ Log("find_coderabbit_test_pr", TRUE)
  /\ UNCHANGED <<envVars, fnVars, scored, cfgVars, mainVars, pr_info, surfaces, result, test_pr, runVars, pending, sbVars, scorer_args>>

FindTestPrRaise ==
  /\ ppc = "find_test_pr"
  /\ TestError("find_coderabbit_test_pr failed")
  /\ Log("find_coderabbit_test_pr", FALSE)
  /\ UNCHANGED <<envVars, fnVars, scored, cfgVars, mainVars, pr_info, surfaces, test_pr, runVars, pending, sbVars, scorer_args>>

(* ------------------------ _run_tests_in_daytona ------------------------ *)
\* OnInnerRaise without the finally block
OnInnerRaiseNoFinally == "run_except"
\* lines 199, 230-231: an exception inside the inner try runs the finally block first
OnInnerRaise == "cleanup"
\* OnOuterRaise running the finally block as well
OnOuterRaiseCleanup == "cleanup"
\* lines 172, 233: an exception outside the inner try goes to the handler
OnOuterRaise == "run_except"
\* line 231: where the finally block hands control, given the exception in flight
AfterCleanup(p) == IF IsNone(p) THEN "run_return" ELSE "run_except"
\* cleanup letting the failure of delete out
CleanupPropagating(delete_ok) == IF delete_ok THEN pending ELSE Some("delete failed")
\* TestRunner.cleanup lines 127-130: the exception in flight once cleanup is
\* over; a failure of delete is swallowed
CleanupSwallowing(delete_ok) == pending
\* AfterRunTests leaving without the finally block
AfterRunTestsNoCleanup == "run_return"
\* lines 228-231: where control goes when the inner try block is done
AfterRunTests == "cleanup"
RaiseInRun(msg, to) == pending' = Some(msg) /\ ppc' = to
\* a sandbox as the service sees it
NewSandbox(owner) == [owner |-> owner, files |-> <<>>, calls |-> <<>>, elapsed |-> None, deleted |-> FALSE]
Call(h, op) == sandboxes' = [sandboxes EXCEPT ![h].calls = Append(@, op)]

\* lines 174-176
PrepareCodeOk ==
  /\ ppc = "prepare_code"
  /\ \E cf \in CodeFileCases : code_files' = cf
  /\ ppc' = "prepare_tests"
  /\ Log("prepare_code_files", TRUE)
  /\ UNCHANGED <<envVars, fnVars, scored, cfgVars, mainVars, pr_info, surfaces, result, test_pr, test_files, rt, pending, sbVars,
                 scorer_args>>

PrepareCodeRaise ==
  /\ ppc = "prepare_code"
  /\ RaiseInRun("prepare_files_from_pr failed", OnOuterRaise)
  /\ Log("prepare_code_files", FALSE)
  /\ UNCHANGED <<envVars, fnVars, scored, cfgVars, mainVars, pr_info, surfaces, result, test_pr, runVars, sbVars, scorer_args>>

\* AfterPrepareTests going on with an empty set of test files
AfterPrepareTestsNoGuard(tf) ==
  IF parse_imports_from_test_files(tf) # {} THEN "fetch_sources" ELSE "create_sandbox"
\* lines 183-189: return on an empty set of test files, resolve the imports if there are any
AfterPrepareTests(tf) ==
  IF tf = <<>> THEN "run_return"
  ELSE IF parse_imports_from_test_files(tf) # {} THEN "fetch_sources"
  ELSE "create_sandbox"
\* lines 179-189
PrepareTestsOk ==
  /\ ppc = "prepare_tests"
  /\ \E tf \in world.test_files :
       /\ test_files' = tf
       /\ rt' = IF tf = <<>> THEN [rt EXCEPT !.status = "no_tests"] ELSE rt
       /\ ppc' = AfterPrepareTests(tf)
  /\ Log("prepare_test_files", TRUE)
  /\ UNCHANGED <<envVars, fnVars, scored, cfgVars, mainVars, pr_info, surfaces, result, test_pr, code_files, pending, sbVars,
                 scorer_args>>

PrepareTestsRaise ==
  /\ ppc = "prepare_tests"
  /\ RaiseInRun("prepare_files_from_pr failed", OnOuterRaise)
  /\ Log("prepare_test_files", FALSE)
  /\ UNCHANGED <<envVars, fnVars, scored, cfgVars, mainVars, pr_info, surfaces, result, test_pr, runVars, sbVars, scorer_args>>

\* lines 190-194
FetchSourcesOk ==
  /\ ppc = "fetch_sources"
  /\ \E sf \in world.source_files : code_files' = UpdateFiles(code_files, sf)
  /\ ppc' = "create_sandbox"
  /\ Log("fetch_source_files_from_imports", TRUE)
  /\ UNCHANGED <<envVars, fnVars, scored, cfgVars, mainVars, pr_info, surfaces, result, test_pr, test_files, rt, pending, sbVars,
                 scorer_args>>

FetchSourcesRaise ==
  /\ ppc = "fetch_sources"
  /\ RaiseInRun("fetch_source_files_from_imports failed", OnOuterRaise)
  /\ Log("fetch_source_files_from_imports", FALSE)
  /\ UNCHANGED <<envVars, fnVars, scored, cfgVars, mainVars, pr_info, surfaces, result, test_pr, runVars, sbVars, scorer_args>>

\* line 197 and TestRunner.create_sandbox
CreateSandboxOk ==
  /\ ppc = "create_sandbox"
  /\ sandboxes' = Append(sandboxes, NewSandbox(i))
  /\ sandbox' = Some(Len(sandboxes) + 1)
  /\ ppc' = "setup"
  /\ Log("create_sandbox", TRUE)
  /\ UNCHANGED <<envVars, fnVars, scored, cfgVars, mainVars, pr_info, surfaces, result, test_pr, runVars, pending, scorer_args>>

CreateSandboxRaise ==
  /\ ppc = "create_sandbox"
  /\ RaiseInRun("create_sandbox failed", OnOuterRaise)
  /\ Log("create_sandbox", FALSE)
  /\ UNCHANGED <<envVars, fnVars, scored, cfgVars, mainVars, pr_info, surfaces, result, test_pr, runVars, sbVars, scorer_args>>

\* line 200 and TestRunner.setup_environment
SetupOk ==
  /\ ppc = "setup"
  /\ sandboxes' = [sandboxes EXCEPT ![Get(sandbox)].files = MergeFiles(code_files, test_files),
                                    ![Get(sandbox)].calls = Append(@, "setup_environment")]
  /\ ppc' = "install"
  /\ Log("setup_environment", TRUE)
  /\ UNCHANGED <<envVars, fnVars, scored, cfgVars, mainVars, pr_info, surfaces, result, test_pr, runVars, pending, sandbox,
                 scorer_args>>

SetupRaise ==
  /\ ppc = "setup"
  /\ Call(Get(sandbox), "setup_environment")
  /\ RaiseInRun("setup_environment failed", OnInnerRaise)
  /\ Log("setup_environment", FALSE)
  /\ UNCHANGED <<envVars, fnVars, scored, cfgVars, mainVars, pr_info, surfaces, result, test_pr, runVars, sandbox, scorer_args>>

\* line 201 and TestRunner.install_dependencies
InstallOk ==
  /\ ppc = "install"
  /\ Call(Get(sandbox), "install_dependencies")
  /\ ppc' = "run_tests"
  /\ Log("install_dependencies", TRUE)
  /\ UNCHANGED <<envVars, fnVars, scored, cfgVars, mainVars, pr_info, surfaces, result, test_pr, runVars, pending, sandbox,
                 scorer_args>>

InstallRaise ==
  /\ ppc = "install"
  /\ Call(Get(sandbox), "install_dependencies")
  /\ RaiseInRun("install_dependencies failed", OnInnerRaise)
  /\ Log("install_dependencies", FALSE)
  /\ UNCHANGED <<envVars, fnVars, scored, cfgVars, mainVars, pr_info, surfaces, result, test_pr, runVars, sandbox, scorer_args>>

\* RunResult reporting every completed command as passed
RunResultAlwaysPassed(exit_code, output, tests) ==
  [status |-> "passed", exitCode |-> Some(exit_code), output |-> output, generatedTests |-> GeneratedTests(tests)]
\* lines 206-228 applied to the response of run_tests
RunResult(exit_code, output, tests) ==
  [status |-> IF exit_code = 0 THEN "passed" ELSE "failed", exitCode |-> Some(exit_code),
   output |-> output, generatedTests |-> GeneratedTests(tests)]

\* TestRunner.run_tests line 103: the ceiling of the test command, in seconds
TestTimeout == 300
\* line 111: exit code of the script when the command was killed at the ceiling
TimeoutExit == 1
TimeoutMessage == "Test execution timed out after 5 minutes"
\* run_tests with the ceiling ignored: the command's own exit code is reported
run_testsUnbounded(seconds, exit_code, output) == [exit_code |-> exit_code, result |-> output]
\* TestRunner.run_tests lines 94-122: the response of the script for a command
\* that runs for `seconds` and would end with exit_code and output
run_tests(seconds, exit_code, output) ==
  IF seconds > TestTimeout THEN [exit_code |-> TimeoutExit, result |-> TimeoutMessage]
  ELSE [exit_code |-> exit_code, result |-> output]

\* lines 203-228 and TestRunner.run_tests
RunTestsOk ==
  /\ ppc = "run_tests"
  /\ \E seconds \in world.durations, exit_code \in ExitCodes, output \in Outputs :
       LET response == run_tests(seconds, exit_code, output)
       IN /\ rt' = RunResult(response.exit_code, response.result, test_files)
          /\ sandboxes' = [sandboxes EXCEPT
               ![Get(sandbox)].calls = Append(@, detect_test_command(MergeFiles(code_files, test_files))),
               ![Get(sandbox)].elapsed = Some(seconds)]
  /\ ppc' = AfterRunTests
  /\ Log("run_tests", TRUE)
  /\ UNCHANGED <<envVars, fnVars, scored, cfgVars, mainVars, pr_info, surfaces, result, test_pr, code_files, test_files, pending,
                 sandbox, scorer_args>>

RunTestsRaise ==
  /\ ppc = "run_tests"
  /\ Call(Get(sandbox), detect_test_command(MergeFiles(code_files, test_files)))
  /\ RaiseInRun("run_tests failed", OnInnerRaise)
  /\ Log("run_tests", FALSE)
  /\ UNCHANGED <<envVars, fnVars, scored, cfgVars, mainVars, pr_info, surfaces, result, test_pr, runVars, sandbox, scorer_args>>

\* DeleteCalls calling delete a second time
DeleteCallsRetried(calls) == calls \o <<"delete", "delete">>
\* TestRunner.cleanup line 128: one call of delete on the handle held
DeleteCalls(calls) == Append(calls, "delete")
\* lines 230-231 and TestRunner.cleanup: delete is called, its exception swallowed
Cleanup ==
  /\ ppc = "cleanup"
  /\ \E delete_ok \in BOOLEAN :
       /\ Log("cleanup", delete_ok)
       /\ IF IsNone(sandbox) THEN UNCHANGED sandboxes
          ELSE sandboxes' = [sandboxes EXCEPT ![Get(sandbox)].calls = DeleteCalls(@),
                                              ![Get(sandbox)].deleted = delete_ok]
       /\ pending' = CleanupSwallowing(delete_ok)
       /\ ppc' = AfterCleanup(CleanupSwallowing(delete_ok))
  /\ UNCHANGED <<envVars, fnVars, scored, cfgVars, mainVars, pr_info, surfaces, result, test_pr, runVars, sandbox,
                 scorer_args>>

\* lines 238 and 90-91: the run's record is stored on the result
ReturnRun(r) ==
  /\ rt' = r
  /\ result' = [result EXCEPT !.testResults = Some(r), !.generatedTests = r.generatedTests]
  /\ ppc' = AfterTests

\* lines 185 and 238
RunReturn ==
  /\ ppc = "run_return"
  /\ ReturnRun(rt)
  /\ UNCHANGED <<envVars, fnVars, scored, cfgVars, mainVars, pr_info, surfaces, test_pr, code_files, test_files, pending, sbVars,
                 trace, scorer_args>>

\* ErrorRun without the message of the exception
ErrorRunNoMessage(r, msg) == [r EXCEPT !.status = "error"]
\* lines 235-236: the handler marks the record and stores str(e) in it
ErrorRun(r, msg) == ("error" :> msg) @@ [r EXCEPT !.status = "error"]
\* lines 233-238
RunExcept ==
  /\ ppc = "run_except"
  /\ ReturnRun(ErrorRun(rt, Get(pending)))
  /\ pending' = None
  /\ UNCHANGED <<envVars, fnVars, scored, cfgVars, mainVars, pr_info, surfaces, test_pr, code_files, test_files, sbVars, trace,
                 scorer_args>>

(* ------------------------------ scoring -------------------------------- *)
\* ScorerArgs without the execution result
ScorerArgsNoTests(files) ==
  [pr_info |-> pr_info, coderabbit_reviews |-> result.coderabbitReviews,
   test_results |-> None, code_files |-> files]
\* process_pr lines 103-108: the arguments of analyze_pr
ScorerArgs(files) ==
  [pr_info |-> pr_info, coderabbit_reviews |-> result.coderabbitReviews,
   test_results |-> result.testResults, code_files |-> files]

\* lines 103-108, 117-119: _get_pr_files raises while the arguments are evaluated
ScoreFilesRaise ==
  /\ ppc = "analyze"
  /\ result' = GptError(result)
  /\ ppc' = AfterGptError
  /\ Log("get_pr_files", FALSE)
  /\ UNCHANGED <<envVars, fnVars, scored, cfgVars, mainVars, pr_info, surfaces, test_pr, runVars, pending, sbVars, scorer_args>>

\* analyze_pr lines 42-44 with _build_analysis_prompt line 116: a null PR body
\* is sliced outside the try block and analyze_pr raises
ScorePromptRaise ==
  /\ ppc = "analyze"
  /\ IsNone(pr_info.body)
  /\ \E cf \in CodeFileCases : scorer_args' = Some(ScorerArgs(cf))
  /\ result' = GptError(result)
  /\ ppc' = AfterGptError
  /\ trace' = trace \o <<Event("get_pr_files", TRUE), Event("analyze_pr", FALSE)>>
  /\ UNCHANGED <<envVars, fnVars, scored, cfgVars, mainVars, pr_info, surfaces, test_pr, runVars, pending, sbVars>>

\* analyze_pr lines 46-74: the completion call or json.loads raises
ScoreDefault ==
  /\ ppc = "analyze"
  /\ ~IsNone(pr_info.body)
  /\ \E cf \in CodeFileCases : scorer_args' = Some(ScorerArgs(cf))
  /\ result' = ApplyAnalysis(result, DefaultAnalysis)
  /\ ppc' = "return"
  /\ trace' = trace \o <<Event("get_pr_files", TRUE), Event("llm_complete", FALSE), Event("analyze_pr", TRUE)>>
  /\ scored' = scored \cup {i}
  /\ UNCHANGED <<envVars, fnVars, cfgVars, mainVars, pr_info, surfaces, test_pr, runVars, pending, sbVars>>

\* analyze_pr lines 46-66 and process_pr lines 110-119
ScoreAnalysis ==
  /\ ppc = "analyze"
  /\ ~IsNone(pr_info.body)
  /\ \E cf \in CodeFileCases : scorer_args' = Some(ScorerArgs(cf))
  /\ \E a \in world.analyses : result' = ApplyAnalysis(result, a)
  /\ ppc' = "return"
  /\ trace' = trace \o <<Event("get_pr_files", TRUE), Event("llm_complete", TRUE), Event("analyze_pr", TRUE)>>
  /\ scored' = scored \cup {i}
  /\ UNCHANGED <<envVars, fnVars, cfgVars, mainVars, pr_info, surfaces, test_pr, runVars, pending, sbVars>>

(* ---------------------------- specification ---------------------------- *)
Next ==
  \/ StartPR \/ AppendResult \/ CatchError \/ FinalSave
  \/ GetPrInfoOk \/ GetPrInfoRaise
  \/ CheckReviewOk \/ CheckReviewRaise
  \/ GetCommentsOk \/ GetCommentsRaise
  \/ TriggerOk \/ TriggerRaise
  \/ Sleep
  \/ FindTestPrFound \/ FindTestPrNone \/ FindTestPrRaise
  \/ PrepareCodeOk \/ PrepareCodeRaise
  \/ PrepareTestsOk \/ PrepareTestsRaise
  \/ FetchSourcesOk \/ FetchSourcesRaise
  \/ CreateSandboxOk \/ CreateSandboxRaise
  \/ SetupOk \/ SetupRaise
  \/ InstallOk \/ InstallRaise
  \/ RunTestsOk \/ RunTestsRaise
  \/ Cleanup \/ RunReturn \/ RunExcept
  \/ ScoreFilesRaise \/ ScorePromptRaise \/ ScoreDefault \/ ScoreAnalysis

Spec == Init /\ [][Next]_vars

(* --------------------- batches that execute tests ---------------------- *)
\* main with every client built and a listing of SandboxPRs look-alike PRs:
\* each run reaches the test stage with the TestRunner the runs share
InitSandbox ==
  /\ prs = Listing(SandboxPRs)
  /\ skip_tests = FALSE
  /\ skip_gpt = FALSE
  /\ has_runner = TRUE
  /\ has_analyzer = TRUE
  /\ mpc = "loop"
  /\ args = [repo |-> GoodRepo, max_prs |-> None]
  /\ environ = AllKeys
  /\ repo_prs = prs
  /\ world = PlainWorld
  /\ InitLocals
  /\ fn_arg = None
  /\ fn_ret = None

\* the steps of such a batch: the code-hosting calls and the model answer, the
\* sandbox service may fail at every call
NextSandbox ==
  \/ StartPR \/ AppendResult \/ FinalSave
  \/ GetPrInfoOk \/ CheckReviewOk \/ GetCommentsOk
  \/ TriggerOk \/ Sleep \/ FindTestPrFound
  \/ PrepareCodeOk \/ PrepareTestsOk \/ FetchSourcesOk
  \/ CreateSandboxOk \/ CreateSandboxRaise
  \/ SetupOk \/ SetupRaise
  \/ InstallOk \/ InstallRaise
  \/ RunTestsOk \/ RunTestsRaise
  \/ Cleanup \/ RunReturn \/ RunExcept
  \/ ScorePromptRaise \/ ScoreAnalysis

SpecSandbox == InitSandbox /\ [][NextSandbox]_vars

(* ------------------------ the batch driver alone ----------------------- *)
\* command lines: repository identifiers and --max-prs values
RepoArgs == {GoodRepo, <<"o","w","n","e","r","r","e","p","o">>, <<"o","w","n","e","r","/","r","e","p","o","/","x">>, <<"o","w","n","e","r","/">>}
MaxPrsArgs == {None, Some(0), Some(2), Some(BatchPRs)}
\* a credential is absent: the code-hosting token, the sandbox key with
\* testing on, or the model key with analysis on
MissingCredential ==
  \/ GithubKey \notin environ
  \/ ~skip_tests /\ DaytonaKey \notin environ
  \/ ~skip_gpt /\ OpenAIKey \notin environ
\* main from its first line.  Batches that get past the set-up have both the
\* test stage and the scoring stage opted out, so that a run of process_pr is
\* the PR fetch, the bot check and the comment harvest; the PRs look alike.
InitBatch ==
  /\ mpc = "start"
  /\ prs = <<>>
  /\ has_runner = FALSE
  /\ has_analyzer = FALSE
  /\ skip_tests \in BOOLEAN
  /\ skip_gpt \in BOOLEAN
  /\ args \in [repo : RepoArgs, max_prs : MaxPrsArgs]
  /\ environ \in SUBSET AllKeys
  /\ repo_prs \in {Listing(m) : m \in {0, BatchPRs}}
  /\ world = PlainWorld
  /\ InitLocals
  /\ fn_arg = None
  /\ fn_ret = None
  /\ \/ skip_tests /\ skip_gpt
     \/ MissingCredential
     \/ Len(Split(args.repo, "/")) # 2

NextBatch ==
  \/ ParseRepoName \/ InitClients \/ ListPrs
  \/ StartPR \/ AppendResult \/ CatchError \/ FinalSave
  \/ GetPrInfoOk \/ GetPrInfoRaise
  \/ CheckReviewOk
  \/ GetCommentsOk \/ GetCommentsRaise

SpecBatch == InitBatch /\ [][NextBatch]_vars

(* ------------- check_coderabbit_review on its own (pure function) ------- *)
\* an item of the code-hosting API whose author is null, and one without author
NullUserItem == [user |-> None, body |-> <<"g","o","n","e">>]
NoUserItem == [body |-> <<"s","y","s","t","e","m">>]
\* what one surface of a PR can hold
ItemLists ==
  { <<>>,
    <<Comment(<<"a","l","i","c","e">>, <<"o","k">>)>>,
    <<Comment(BotLogin, <<"o","k">>)>>,
    <<Comment(<<"a","l","i","c","e">>, <<"o","k">>), Comment(<<"C","o","d","e","R","a","b","b","i","t","A","I">>, <<"o","k">>)>>,
    <<NoUserItem>>,
    <<NullUserItem>>,
    <<NullUserItem, Comment(BotLogin, <<"o","k">>)>>,
    <<Comment(BotLogin, <<"o","k">>), NullUserItem>> }
BotInputs == [issue : ItemLists, review : ItemLists, reviews : ItemLists]

InitBot ==
  /\ prs = <<>>
  /\ skip_tests = FALSE
  /\ skip_gpt = FALSE
  /\ has_runner = FALSE
  /\ has_analyzer = FALSE
  /\ mpc = "idle"
  /\ args = [repo |-> GoodRepo, max_prs |-> None]
  /\ environ = AllKeys
  /\ repo_prs = <<>>
  /\ world = PlainWorld
  /\ InitLocals
  /\ fn_arg \in {Some(s) : s \in BotInputs}
  /\ fn_ret = None

\* lines 66-95 applied to the three listings of one PR
CheckCoderabbitReview ==
  /\ fn_arg # None
  /\ fn_ret = None
  /\ fn_ret' = Some(check_coderabbit_review(Get(fn_arg)))
  /\ UNCHANGED <<envVars, fn_arg, cfgVars, mainVars, ppc, pr_info, surfaces, result, test_pr, runVars,
                 pending, sbVars, trace, scorer_args, scored>>

NextBot == CheckCoderabbitReview
SpecBot == InitBot /\ [][NextBot]_vars

(* --------------------------- source resolution ------------------------- *)
\* line 387: names of the standard library and of the test frameworks
StdModules ==
  { <<"s","y","s">>, <<"o","s">>, <<"j","s","o","n">>, <<"b","a","s","e","6","4">>, <<"s","u","b","p","r","o","c","e","s","s">>, <<"u","n","i","t","t","e","s","t">>, <<"p","y","t","e","s","t">>, <<"t","y","p","i","n","g">>, <<"r","e">>,
    <<"a","s","t">>, <<"c","o","l","l","e","c","t","i","o","n","s">>, <<"d","a","t","e","t","i","m","e">>, <<"t","i","m","e">>, <<"r","a","n","d","o","m">>, <<"m","a","t","h">> }
\* a filter that lets every name through
NotStdNothing(m) == TRUE
NotStd(m) == m \notin StdModules
\* lines 386-387, the imported names in the order the set is iterated
filtered_modules(imported) == SelectSeq(imported, NotStd)
\* the test-suffix conventions alone
IsTestPathBySuffix(p) == EndsWith(p, <<"_","t","e","s","t",".","p","y">>) \/ EndsWith(p, <<"t","e","s","t","s",".","p","y">>)
\* lines 411 and 459
IsTestPath(p) == HasSub(Lower(p), TestWord) \/ EndsWith(p, <<"_","t","e","s","t",".","p","y">>) \/ EndsWith(p, <<"t","e","s","t","s",".","p","y">>)
\* os.path.splitext(name)[0] of a name ending in .py
NoExt(name) == SubSeq(name, 1, Len(name) - Len(PyExt))
\* lines 419-425, 435 and 470: the file is the module's, or lies in its package
MatchesModule(p, module) ==
  \/ NoExt(Basename(p)) = module
  \/ Basename(p) = module \o PyExt
  \/ module \in Range(Split(ReplaceChar(p, "\\", "/"), "/"))
\* a call of get_file_content for p on account of module, and whether it returned
Fetch(p, module, ok) == [path |-> p, module |-> module, ok |-> ok]
Fetched(p) == [path |-> p, content |-> <<"s","r","c">>]
NothingFetched == [files |-> <<>>, calls |-> <<>>]
RECURSIVE TryModules(_, _, _, _)
\* the loop over the modules for one file: the first module whose fetch
\* succeeds ends it (break); a fetch that raises is reported and the loop goes on
TryModules(p, modules, unfetchable, acc) ==
  IF modules = <<>> THEN acc
  ELSE IF ~MatchesModule(p, Head(modules)) THEN TryModules(p, Tail(modules), unfetchable, acc)
  ELSE IF p \in unfetchable
  THEN TryModules(p, Tail(modules), unfetchable,
                  [acc EXCEPT !.calls = Append(@, Fetch(p, Head(modules), FALSE))])
  ELSE [files |-> Append(acc.files, Fetched(p)), calls |-> Append(acc.calls, Fetch(p, Head(modules), TRUE))]
RECURSIVE ScanPaths(_, _, _, _, _)
\* the loop over the listed files, lines 403-446 and 453-477
ScanPaths(paths, modules, existing, unfetchable, acc) ==
  IF paths = <<>> THEN acc
  ELSE LET p == Head(paths)
           skip == \/ HasPath(existing, p) \/ HasPath(acc.files, p)
                   \/ IsTestPath(p)
                   \/ ~EndsWith(p, PyExt)
       IN ScanPaths(Tail(paths), modules, existing, unfetchable,
                    IF skip THEN acc ELSE TryModules(p, modules, unfetchable, acc))
Resolved(acc, tree) == [raised |-> FALSE, files |-> acc.files, calls |-> acc.calls, tree |-> tree]
ResolveRaised(tree) == [raised |-> TRUE, files |-> <<>>, calls |-> <<>>, tree |-> tree]
\* run_tests_daytona.fetch_source_files_from_imports.  c holds the answers of
\* the code-hosting API: info_ok (get_pr_info returns), tree (the branch listing,
\* none when the request fails), changed (the PR's changed files, none when the
\* request fails), unfetchable (paths on which get_file_content raises)
fetch_source_files_from_imports(imported, existing, c) ==
  IF imported = <<>> THEN Resolved(NothingFetched, FALSE)
  ELSE IF ~c.info_ok THEN ResolveRaised(FALSE)
  ELSE IF filtered_modules(imported) = <<>> THEN Resolved(NothingFetched, FALSE)
  ELSE IF c.tree # None
  THEN Resolved(ScanPaths(Get(c.tree), filtered_modules(imported), existing, c.unfetchable, NothingFetched), TRUE)
  ELSE IF c.changed = None THEN ResolveRaised(TRUE)
  ELSE Resolved(ScanPaths(Get(c.changed), filtered_modules(imported), existing, c.unfetchable, NothingFetched), TRUE)

(* ---------------- library functions applied on their own --------------- *)
\* a call of the function named fn on the argument arg
Apply(fn, arg) == Some([fn |-> fn, arg |-> arg])
Called(fn) == fn_arg # None /\ Get(fn_arg).fn = fn
Returned(fn) == Called(fn) /\ fn_ret # None
Arg == Get(fn_arg).arg
Ret == Get(fn_ret)

\* comment bodies: up to MaxWords words separated by blanks
MaxWords == 2
Words ==
  { <<"e","r","r","o","r">>, <<"D","e","b","u","g","g","e","d">>, <<"s","e","c","u","r","i","t","y">>, <<"S","E","C","U","R","I","T","Y">>, <<"v","u","l","n","e","r","a","b","i","l","i","t","y">>, <<"w","a","r","n","i","n","g">>, <<"S","u","g","g","e","s","t","i","o","n">>,
    <<"i","m","p","r","o","v","e","m","e","n","t">>, <<"g","o","o","d">>, <<"a","p","p","r","o","v","e","d">>, <<"p","a","s","s","e","d">>, <<"n","i","t">>, <<"L","G","T","M">> }
RECURSIVE BodiesOf(_)
BodiesOf(n) == IF n = 0 THEN {<<>>} ELSE {w \o <<" ">> \o b : w \in Words, b \in BodiesOf(n - 1)}
Bodies == UNION {BodiesOf(n) : n \in 0..MaxWords}
\* bodies around the description limit, the character at k being the digit k % 10
LongBody(n) == [k \in 1..n |-> Digits[(k % 10) + 1]]
LongBodyLengths == {DescLimit - 1, DescLimit, DescLimit + 1, DescLimit + 3, DescLimit + 50}
LongBodies == {LongBody(n) : n \in LongBodyLengths} \cup {LongBody(DescLimit - 2) \o <<".",".",".">>}
ReviewComments == {Comment(login, body) : login \in {BotLogin, <<"a","l","i","c","e">>}, body \in Bodies \cup LongBodies}

\* PRs of the two listings: the original one (by the bot, its title holding a
\* keyword), two companions, a human's PR with a keyword, a bot's PR without
\* one, a PR without description
PullRequest(n, title, body, login) == [number |-> n, title |-> title, body |-> body, login |-> login]
ListedPrs ==
  { PullRequest(FirstPR, <<"c","o","d","e","r","a","b","b","i","t"," ","c","o","n","f","i","g">>, Some(<<"d","e","s","c">>), BotLogin),
    PullRequest(FirstPR + 1, <<"A","d","d"," ","u","n","i","t"," ","t","e","s","t","s"," ","f","o","r"," ","P","R"," ","#">> \o Str(FirstPR), Some(<<>>), BotLogin),
    PullRequest(FirstPR + 2, <<"M","o","r","e">>, Some(<<"G","e","n","e","r","a","t","e","d"," ","t","e","s","t","s">>), <<"D","e","p","e","n","d","a","b","o","t","[","b","o","t","]">>),
    PullRequest(FirstPR + 3, <<"U","n","i","t"," ","t","e","s","t","s">>, Some(<<>>), <<"a","l","i","c","e">>),
    PullRequest(FirstPR + 4, <<"B","u","m","p"," ","d","e","p","s">>, Some(<<>>), <<"d","e","p","e","n","d","a","b","o","t","[","b","o","t","]">>),
    PullRequest(FirstPR + 5, <<"w","i","p">>, None, <<"b","o","b">>) }
Filler == PullRequest(FirstPR + 6, <<"c","h","o","r","e">>, Some(<<>>), <<"c","a","r","o","l">>)
MaxOpen == 2
RECURSIVE ListingsOf(_)
ListingsOf(n) == IF n = 0 THEN {<<>>} ELSE {<<p>> \o l : p \in ListedPrs, l \in ListingsOf(n - 1)}
OpenListings == UNION {ListingsOf(n) : n \in 0..MaxOpen}
\* closed PRs: some fillers, then at most one PR of interest
ClosedListings ==
  {[k \in 1..n |-> Filler] \o l : n \in {0, ClosedScanned - 1, ClosedScanned}, l \in ListingsOf(0) \cup ListingsOf(1)}
SearchInputs == [open : OpenListings, closed : ClosedListings, original : {FirstPR}]

\* pieces of a test file, each with the module paths its import statements name
Snippet(text, modules) == [text |-> text, modules |-> modules]
Snippets ==
  { Snippet(<<"i","m","p","o","r","t"," ","o","s">>, {<<"o","s">>}),
    Snippet(<<"i","m","p","o","r","t"," ","a","p","p",".","a","u","t","h"," ","a","s"," ","a",","," ","j","s","o","n">>, {<<"a","p","p",".","a","u","t","h">>, <<"j","s","o","n">>}),
    Snippet(<<"f","r","o","m"," ","a","p","p",".","a","u","t","h"," ","i","m","p","o","r","t"," ","l","o","g","i","n">>, {<<"a","p","p",".","a","u","t","h">>}),
    Snippet(<<"f","r","o","m"," ","."," ","i","m","p","o","r","t"," ","x">>, {}),
    Snippet(<<"f","r","o","m"," ",".","u","t","i","l"," ","i","m","p","o","r","t"," ","y">>, {<<"u","t","i","l">>}),
    Snippet(<<"d","e","f"," ","f","(",")",":","\n"," "," "," "," ","i","m","p","o","r","t"," ","p","a","y","m","e","n","t">>, {<<"p","a","y","m","e","n","t">>}),
    Snippet(<<"x"," ","="," ","1">>, {}),
    Snippet(BrokenLine, {}) }
MaxSnippets == 2
RECURSIVE SourcesOf(_)
\* the texts of n snippets joined by line feeds
SourcesOf(n) ==
  IF n = 1 THEN Snippets
  ELSE {Snippet(s.text \o <<"\n">> \o r.text, s.modules \cup r.modules) : s \in Snippets, r \in SourcesOf(n - 1)}
Sources == {Snippet(<<>>, {})} \cup UNION {SourcesOf(n) : n \in 1..MaxSnippets}
\* a test file: path and content as fetched, and the modules its text imports
TestFile(p, s) == [path |-> p, content |-> s.text, modules |-> s.modules]
SecondFiles ==
  { TestFile(<<"t","e","s","t","s","/","t","e","s","t","_","b",".","p","y">>, Snippet(<<"i","m","p","o","r","t"," ","p","a","y","m","e","n","t">>, {<<"p","a","y","m","e","n","t">>})),
    TestFile(<<"t","e","s","t","s","/","t","e","s","t","_","b",".","p","y">>, Snippet(<<"i","m","p","o","r","t"," ","p","a","y","m","e","n","t",".","c","o","r","e","\n">> \o BrokenLine, {<<"p","a","y","m","e","n","t",".","c","o","r","e">>})) }
TestFileSets ==
  {<<TestFile(<<"t","e","s","t","s","/","t","e","s","t","_","a",".","p","y">>, s)>> : s \in Sources}
    \cup {<<TestFile(<<"t","e","s","t","s","/","n","o","t","e","s",".","m","d">>, s)>> : s \in Sources}
    \cup {<<TestFile(<<"t","e","s","t","s","/","t","e","s","t","_","a",".","p","y">>, s), f>> : s \in Sources, f \in SecondFiles}

\* imported names in iteration order: up to MaxImports different ones
ImportNames == {<<"a","p","p">>, <<"a","p","p",".","a","u","t","h">>, <<"p","a","y","m","e","n","t">>, <<"o","s">>, <<"p","y","t","e","s","t">>}
MaxImports == 2
RECURSIVE ImportsOf(_)
ImportsOf(n) ==
  IF n = 0 THEN {<<>>}
  ELSE {<<m>> \o l : m \in ImportNames, l \in ImportsOf(n - 1)}
ImportLists == {l \in UNION {ImportsOf(n) : n \in 0..MaxImports} : \A j, k \in 1..Len(l) : j # k => l[j] # l[k]}
\* listings of the branch and of the PR's changed files
BranchTree ==
  << <<"R","E","A","D","M","E",".","m","d">>, <<"o","s",".","p","y">>, <<"a","p","p","/","a","u","t","h",".","p","y">>, <<"a","p","p","/","m","o","d","e","l","s",".","p","y">>, <<"t","e","s","t","s","/","p","a","y","m","e","n","t",".","p","y">>, <<"p","a","y","m","e","n","t",".","p","y">>,
     <<"l","i","b","/","T","e","s","t","_","p","a","y","m","e","n","t",".","p","y">> >>
ChangedFiles == << <<"a","p","p","/","a","u","t","h",".","p","y">>, <<"t","e","s","t","s","/","a","p","p",".","p","y">>, <<"p","a","y","m","e","n","t",".","p","y">>, <<"a","p","p","/","m","o","d","e","l","s",".","p","y">> >>
ResolveInputs ==
  [ imported : ImportLists,
    existing : {<<>>, <<Fetched(<<"p","a","y","m","e","n","t",".","p","y">>)>>},
    info_ok : BOOLEAN,
    tree : {None, Some(BranchTree)},
    changed : {None, Some(ChangedFiles)},
    unfetchable : {{}, {<<"a","p","p","/","a","u","t","h",".","p","y">>}} ]

\* code files and test files of one run, possibly with common paths
RunPaths == {<<"a","p","p","/","a",".","p","y">>, <<"c","o","n","f","t","e","s","t",".","p","y">>, <<"t","e","s","t","s","/","t","e","s","t","_","a",".","p","y">>}
MaxFiles == 2
RECURSIVE FileSetsOf(_, _)
\* the dicts of n files with the given content, in every insertion order
FileSetsOf(n, content) ==
  IF n = 0 THEN {<<>>}
  ELSE {Append(fs, [path |-> p, content |-> content]) :
          fs \in FileSetsOf(n - 1, content), p \in RunPaths}
FileSets(content) ==
  {fs \in UNION {FileSetsOf(n, content) : n \in 0..MaxFiles} : \A j, k \in 1..Len(fs) : j # k => fs[j].path # fs[k].path}
RunInputs == [code_files : FileSets(<<"c","o","d","e">>), test_files : FileSets(<<"i","m","p","o","r","t"," ","p","y","t","e","s","t">>)]

\* files given to command detection: test-like and other paths of several
\* languages, with and without the name of a test framework in the text
DetectPaths ==
  { <<"t","e","s","t","s","/","t","e","s","t","_","a",".","p","y">>, <<"a","p","p","/","S","p","e","c","_","b",".","j","s">>, <<"s","r","c","/","P","a","y","T","e","s","t",".","j","a","v","a">>, <<"e","2","e","/","l","o","g","i","n",".","s","p","e","c",".","t","s">>, <<"a","p","p","/","m","a","i","n",".","p","y">>,
    <<"t","e","s","t","s","/","n","o","t","e","s",".","m","d">> }
DetectTexts == {<<"i","m","p","o","r","t"," ","p","y","t","e","s","t">>, <<"i","m","p","o","r","t"," ","u","n","i","t","t","e","s","t">>, <<"x"," ","="," ","1">>}
RECURSIVE DetectSetsOf(_)
DetectSetsOf(n) ==
  IF n = 0 THEN {<<>>}
  ELSE {Append(fs, [path |-> p, content |-> c]) : fs \in DetectSetsOf(n - 1), p \in DetectPaths, c \in DetectTexts}
DetectInputs ==
  {fs \in UNION {DetectSetsOf(n) : n \in 0..MaxFiles} : \A j, k \in 1..Len(fs) : j # k => fs[j].path # fs[k].path}

\* findings of earlier stages and answers of the model for lines 110-115
Findings ==
  { [name |-> ReviewName, type |-> "success", description |-> <<"L","G","T","M",","," ","a","p","p","r","o","v","e","d">>],
    [name |-> ReviewName, type |-> "warning", description |-> <<"N","i","c","e"," ","i","m","p","r","o","v","e","m","e","n","t">>] }
FindingLists == {<<>>} \cup {<<f>> : f \in Findings} \cup {<<f, g>> : f, g \in Findings}
\* keys that differ from the finding name in case or length, and an entry renaming the finding
NearMissAnalyses ==
  { Response(Some(10), Some(Obj(<<Member("coderabbit review", Obj(<<Member("type", "danger")>>))>>))),
    Response(Some(10), Some(Obj(<<Member("Coderabbit", Obj(<<Member("type", "danger")>>))>>))),
    Response(Some(10), Some(Obj(<<Member(ReviewName, Obj(<<Member("type", "danger"), Member("type", "info")>>)),
                                   Member("Other Review", Obj(<<Member("description", <<"u","n","r","e","l","a","t","e","d">>)>>))>>))),
    Response(Some(10), Some(JArray(<<JNumber>>))),
    Response(Some(10), Some(JNumber)),
    Response(Some(10), None) }
UpdateInputs ==
  { [result |-> [InitialResult(FirstPR, info) EXCEPT !.coderabbitReviews = fl], analysis |-> a] :
      info \in PrInfoCases, fl \in FindingLists, a \in Analyses \cup NearMissAnalyses \cup {DefaultAnalysis} }

InitFn ==
  /\ prs = <<>>
  /\ skip_tests = FALSE
  /\ skip_gpt = FALSE
  /\ has_runner = FALSE
  /\ has_analyzer = FALSE
  /\ mpc = "idle"
  /\ args = [repo |-> GoodRepo, max_prs |-> None]
  /\ environ = AllKeys
  /\ repo_prs = <<>>
  /\ world = PlainWorld
  /\ InitLocals
  /\ fn_ret = None
  /\ \/ fn_arg \in {Apply("extract_review_info", c) : c \in ReviewComments}
     \/ fn_arg \in {Apply("find_coderabbit_test_pr", a) : a \in SearchInputs}
     \/ fn_arg \in {Apply("parse_imports_from_test_files", a) : a \in TestFileSets}
     \/ fn_arg \in {Apply("fetch_source_files_from_imports", a) : a \in ResolveInputs}
     \/ fn_arg \in {Apply("setup_and_detect", a) : a \in RunInputs}
     \/ fn_arg \in {Apply("detect_test_command", a) : a \in DetectInputs}
     \/ fn_arg \in {Apply("apply_analysis", a) : a \in UpdateInputs}

\* the function called returns v
Return(v) ==
  /\ fn_ret = None
  /\ fn_ret' = Some(v)
  /\ UNCHANGED <<envVars, fn_arg, cfgVars, mainVars, ppc, pr_info, surfaces, result, test_pr, runVars,
                 pending, sbVars, trace, scorer_args, scored>>

\* pr_processor.py lines 123-148
ExtractReviewInfo ==
  /\ Called("extract_review_info")
  /\ Return(extract_review_info(Arg))

\* github_client.py lines 162-222, the two listings being given
FindCoderabbitTestPr ==
  /\ Called("find_coderabbit_test_pr")
  /\ Return(find_coderabbit_test_pr(Arg.open, Arg.closed, Arg.original))

\* run_tests_daytona.py lines 301-348
ParseImports ==
  /\ Called("parse_imports_from_test_files")
  /\ Return(parse_imports_from_test_files(Arg))

\* run_tests_daytona.py lines 351-479
FetchSourceFiles ==
  /\ Called("fetch_source_files_from_imports")
  /\ Return(fetch_source_files_from_imports(Arg.imported, Arg.existing, Arg))

\* pr_processor.py lines 200 and 203: the dict setup_environment writes to the
\* sandbox (test_runner.py line 65) and the dict given to detect_test_command
SetupAndDetect ==
  /\ Called("setup_and_detect")
  /\ Return([all_files |-> MergeFiles(Arg.code_files, Arg.test_files),
             detect_arg |-> MergeFiles(Arg.code_files, Arg.test_files)])

\* run_tests_daytona.py lines 482-504
DetectTestCommand ==
  /\ Called("detect_test_command")
  /\ Return(detect_test_command(Arg))

\* pr_processor.py lines 110-119 on the value analyze_pr returned
ApplyReviewUpdates ==
  /\ Called("apply_analysis")
  /\ Return(ApplyAnalysis(Arg.result, Arg.analysis))

NextFn ==
  \/ ApplyReviewUpdates
  \/ DetectTestCommand
  \/ ExtractReviewInfo
  \/ FindCoderabbitTestPr
  \/ ParseImports
  \/ FetchSourceFiles
  \/ SetupAndDetect
SpecFn == InitFn /\ [][NextFn]_vars

(* ------------------------------ properties ----------------------------- *)
Happened(op) == \E k \in 1..Len(trace) : trace[k].op = op
Succeeded(op) == \E k \in 1..Len(trace) : trace[k] = Event(op, TRUE)
Failed(op) == \E k \in 1..Len(trace) : trace[k] = Event(op, FALSE)
Count(op) == Cardinality({k \in 1..Len(trace) : trace[k].op = op})
TestingOn == ~skip_tests /\ has_runner
ScoringOn == ~skip_gpt /\ has_analyzer
\* the findings the bot check of the current run produced
HarvestedFindings == ExtractAll(get_coderabbit_comments(surfaces))
\* the calls of the trigger, locate and execute stages
TriggerOps == {"trigger_unit_test_generation", "sleep"}
LocateOps == {"find_coderabbit_test_pr"}
ExecuteOps == {"prepare_code_files", "prepare_test_files", "fetch_source_files_from_imports",
               "create_sandbox", "setup_environment", "install_dependencies", "run_tests", "cleanup"}
ScoreOps == {"get_pr_files", "llm_complete", "analyze_pr"}
\* process_pr has a result record and has left the test block
PastTests == ppc \in {"analyze", "return"}

\* C1: a recorded entry has a nonzero risk only if analyze_pr returned for
\* that PR; an entry recorded because process_pr raised has risk 0; every PR
\* the loop has left has an entry and the driver fails only at the final save.
C1_RiskOnlyAfterScoring ==
  /\ \A k \in 1..Len(pullRequests) :
       /\ pullRequests[k].risk # 0 => \E j \in scored : prs[j].number = pullRequests[k].id
       /\ "error" \in DOMAIN pullRequests[k] => pullRequests[k].risk = 0
  /\ ("risk" \in DOMAIN result /\ result.risk # 0) => i \in scored
  /\ mpc # "in_pr" => \A j \in 1..(i - 1) : \E k \in 1..Len(pullRequests) : pullRequests[k].id = prs[j].number
  /\ mpc = "exit1" => i > Len(prs)
\* process_pr raised with scoring enabled and the driver recorded the error entry
C1_Witness ==
  /\ ScoringOn /\ mpc = "loop" /\ i = 2
  /\ "error" \in DOMAIN pullRequests[1] /\ pullRequests[1].risk = 0

\* C2 (as claimed): with testError recorded the scoring stage still runs; with
\* gptError recorded the findings, testResults and generatedTests written by
\* the earlier stages are unchanged in the returned record.
C2_StagesFailIndependently ==
  ppc = "return" =>
    /\ ("testError" \in DOMAIN result /\ ScoringOn) => Happened("get_pr_files")
    /\ "gptError" \in DOMAIN result =>
         /\ result.coderabbitReviews = HarvestedFindings
         /\ result.testResults = (IF Happened("prepare_code_files") THEN Some(rt) ELSE None)
         /\ result.generatedTests = (IF Happened("prepare_code_files") THEN rt.generatedTests ELSE <<>>)

C4_NoRetry ==
  /\ \A op \in {"trigger_unit_test_generation", "find_coderabbit_test_pr", "create_sandbox", "run_tests",
                "llm_complete", "analyze_pr"} : Count(op) <= 1
  /\ mpc = "in_pr" => Cardinality({h \in 1..Len(sandboxes) : sandboxes[h].owner = i}) <= 1
  /\ \A h \in 1..Len(sandboxes) :
       Cardinality({k \in 1..Len(sandboxes[h].calls) :
                      sandboxes[h].calls[k] \notin {"setup_environment", "install_dependencies", "delete"}}) <= 1
\* a run whose test command and whose scorer both failed has returned
C4_Witness == ppc = "return" /\ Failed("run_tests") /\ Failed("analyze_pr")


\* C5: with testing opted out no trigger, locate or execute call is made and
\* no sandbox is provisioned; the returned record has testResults None, no
\* generated tests and no testError; the bot check ran and, unless opted out
\* too, so did scoring.
C5_TestOptOut ==
  ~TestingOn =>
    /\ \A k \in 1..Len(trace) : trace[k].op \notin TriggerOps \cup LocateOps \cup ExecuteOps
    /\ sandboxes = <<>> /\ IsNone(sandbox)
    /\ ppc = "return" =>
         /\ IsNone(result.testResults) /\ result.generatedTests = <<>> /\ "testError" \notin DOMAIN result
         /\ Succeeded("check_coderabbit_review")
         /\ ScoringOn => Happened("get_pr_files")
\* a run with --skip-tests and a test runner present returned after scoring
C5_Witness == skip_tests /\ has_runner /\ ppc = "return" /\ Succeeded("analyze_pr")

\* C6: with analysis opted out the scorer is never called, the returned record
\* has risk 0 and no gptError, and the findings are those of classification.
C6_ScoringOptOut ==
  ~ScoringOn =>
    /\ \A k \in 1..Len(trace) : trace[k].op \notin ScoreOps
    /\ IsNone(scorer_args) /\ scored = {}
    /\ ppc = "return" =>
         /\ result.risk = 0 /\ "gptError" \notin DOMAIN result
         /\ result.coderabbitReviews = HarvestedFindings
\* a run with --skip-gpt and an analyzer present returned two findings
C6_Witness == skip_gpt /\ has_analyzer /\ ppc = "return" /\ Len(result.coderabbitReviews) = 2

\* the position of every call of one run in the order of the stages Fetched,
\* BotChecked, TestsTriggered, TestPRLocated, SandboxExecuted, Scored
OpOrder ==
  [get_pr_info |-> 1, check_coderabbit_review |-> 2, get_coderabbit_comments |-> 3,
   trigger_unit_test_generation |-> 4, sleep |-> 5, find_coderabbit_test_pr |-> 6,
   prepare_code_files |-> 7, prepare_test_files |-> 8, fetch_source_files_from_imports |-> 9,
   create_sandbox |-> 10, setup_environment |-> 11, install_dependencies |-> 12,
   run_tests |-> 13, cleanup |-> 14, get_pr_files |-> 15, llm_complete |-> 16, analyze_pr |-> 17]
\* C7: the calls of a run happen in stage order, each after the previous one
\* finished, and analyze_pr receives the findings and the execution result
\* (or none) that the earlier stages of the run produced.
C7_StageOrder ==
  /\ \A k \in 1..(Len(trace) - 1) : OpOrder[trace[k].op] < OpOrder[trace[k + 1].op]
  /\ ~IsNone(scorer_args) =>
       /\ Get(scorer_args).pr_info = pr_info
       /\ Get(scorer_args).coderabbit_reviews = HarvestedFindings
       /\ Get(scorer_args).test_results = result.testResults
       /\ Get(scorer_args).test_results = (IF Happened("prepare_code_files") THEN Some(rt) ELSE None)
\* a run went through every stage: tests were executed and the scorer returned
C7_Witness == ppc = "return" /\ Succeeded("run_tests") /\ Succeeded("analyze_pr") /\ result.coderabbitReviews # <<>>

\* C8: the companion-PR search is always immediately preceded by the completed
\* wait, itself preceded by the successful trigger; a failed trigger is
\* followed by neither wait nor search.
C8_WaitBeforeSearch ==
  /\ \A k \in 1..Len(trace) : trace[k].op = "find_coderabbit_test_pr" =>
       /\ k >= 3
       /\ trace[k - 1] = Event("sleep", TRUE)
       /\ trace[k - 2] = Event("trigger_unit_test_generation", TRUE)
  /\ ppc = "find_test_pr" => (trace[Len(trace)] = Event("sleep", TRUE))
  /\ Failed("trigger_unit_test_generation") => (~Happened("sleep") /\ ~Happened("find_coderabbit_test_pr"))
\* the search was issued
C8_Witness == Happened("find_coderabbit_test_pr")

\* C9: when the search returns none no execute call is made, no sandbox is
\* provisioned for the run, testResults stays None, generatedTests empty, no
\* testError is recorded and the run goes on to scoring.
C9_NoCompanionSkipsExecution ==
  (Succeeded("find_coderabbit_test_pr") /\ IsNone(test_pr)) =>
    /\ \A k \in 1..Len(trace) : trace[k].op \notin ExecuteOps
    /\ \A h \in 1..Len(sandboxes) : sandboxes[h].owner # i
    /\ IsNone(result.testResults) /\ result.generatedTests = <<>> /\ "testError" \notin DOMAIN result
    /\ ppc \in {"analyze", "return"}
    /\ (ScoringOn /\ ppc = "return") => Happened("get_pr_files")
\* the search returned none and the run returned after scoring
C9_Witness == Succeeded("find_coderabbit_test_pr") /\ IsNone(test_pr) /\ ppc = "return" /\ Succeeded("analyze_pr")

\* C10: once create_sandbox has succeeded, _run_tests_in_daytona is not left
\* (normally or through its handler) before cleanup was called and delete
\* invoked on the sandbox.
C10_CleanupOnEveryExit ==
  (Succeeded("create_sandbox") /\ ppc \in {"run_return", "run_except", "analyze", "return"}) =>
    /\ Happened("cleanup")
    /\ ~IsNone(sandbox)
    /\ sandboxes[Get(sandbox)].owner = i
    /\ sandboxes[Get(sandbox)].calls[Len(sandboxes[Get(sandbox)].calls)] = "delete"
\* materialize raised after provisioning and the handler is reached after cleanup
C10_Witness == ppc = "run_except" /\ Succeeded("create_sandbox") /\ Failed("setup_environment")

(* ------------------- properties of the sandbox lifecycle --------------- *)
Handles == 1..Len(sandboxes)
DeleteInvoked(h) == \E k \in 1..Len(sandboxes[h].calls) : sandboxes[h].calls[k] = "delete"
\* the entries main recorded for the PR of run j
EntriesOf(j) == {k \in 1..Len(pullRequests) : pullRequests[k].id = prs[j].number}
\* _run_tests_in_daytona is past its finally block
PastCleanup == ppc \in {"run_return", "run_except", "analyze", "return"}

\* C11: when delete raises, cleanup still returns and nothing propagates: after
\* a completed test command the record computed before teardown (status from
\* the exit code, exit code, output, generated tests) is what the function
\* returns and what process_pr stores; after a failed step the reported error
\* is that step's, never the teardown's.
C11_DisposeBestEffort ==
  Failed("cleanup") =>
    /\ PastCleanup
    /\ Succeeded("run_tests") =>
         /\ IsNone(pending) /\ ppc # "run_except"
         /\ rt.status \in {"passed", "failed"} /\ "error" \notin DOMAIN rt
         /\ rt = RunResult(Get(rt.exitCode), rt.output, test_files)
         /\ PastTests => (result.testResults = Some(rt) /\ result.generatedTests = rt.generatedTests
                          /\ "testError" \notin DOMAIN result)
    /\ \A op \in {"setup_environment", "install_dependencies", "run_tests"} :
         Failed(op) =>
           /\ ppc = "run_except" => pending # Some("delete failed")
           /\ PastTests => Get(result.testResults).error # "delete failed"
\* delete raised after the tests passed and the passed record was returned
C11_Witness ==
  /\ Failed("cleanup") /\ Succeeded("run_tests") /\ ppc = "return"
  /\ Get(result.testResults).status = "passed"

\* every sandbox belongs to a different run, and the one a run works on is the
\* one it provisioned itself
OwnSandbox ==
  /\ \A g, h \in Handles : g # h => sandboxes[g].owner # sandboxes[h].owner
  /\ \A h \in Handles : sandboxes[h].owner <= i
  /\ (Succeeded("create_sandbox") \/ ppc \in {"setup", "install", "run_tests", "cleanup"}) =>
       (~IsNone(sandbox) /\ sandboxes[Get(sandbox)].owner = i /\ Get(sandbox) = Len(sandboxes))
\* delete was invoked on the sandbox of every run that is past its teardown
DisposedOnReturn ==
  \A h \in Handles : (sandboxes[h].owner < i \/ mpc # "in_pr" \/ PastCleanup) => DeleteInvoked(h)
\* a step changes only the sandbox the current run provisioned
ForeignUntouched ==
  \A h \in Handles : sandboxes'[h] # sandboxes[h] => (sandboxes[h].owner = i /\ sandbox = Some(h))
\* C12 (as claimed): with one TestRunner shared by the runs, each run that
\* reaches execution provisions its own sandbox, no run touches another run's
\* sandbox, at most one sandbox is live (not deleted) at any time, and delete
\* was invoked on a run's sandbox when process_pr returns.
C12_ExclusiveLiveSandbox ==
  /\ [](OwnSandbox /\ DisposedOnReturn)
  /\ [](Cardinality({h \in Handles : ~sandboxes[h].deleted}) <= 1)
  /\ [][ForeignUntouched]_vars
\* C12 (amended): as above, but what is at most one is the number of sandboxes
\* on which delete was not yet invoked; a sandbox whose delete raised can
\* still be live while a later run provisions its own.
C12_ExclusiveSandboxInUse ==
  /\ [](OwnSandbox /\ DisposedOnReturn)
  /\ [](Cardinality({h \in Handles : ~DeleteInvoked(h)}) <= 1)
  /\ [](\A h \in Handles : (~sandboxes[h].deleted /\ sandboxes[h].owner < i) => DeleteInvoked(h))
  /\ [][ForeignUntouched]_vars
\* the second run executes tests in its own sandbox after the first run's
\* sandbox was disposed
C12_Witness ==
  /\ i = 2 /\ ppc = "cleanup" /\ Succeeded("run_tests")
  /\ Len(sandboxes) = 2 /\ sandboxes[1].owner = 1 /\ DeleteInvoked(1)

\* C13: a test command running past the ceiling does not keep run_tests from
\* returning; the record of that run has status failed with the exit code of
\* the timeout branch, never passed, and delete is invoked on the sandbox
\* before _run_tests_in_daytona returns.
C13_TimeoutFailsAndTearsDown ==
  \A h \in Handles :
    (~IsNone(sandboxes[h].elapsed) /\ Get(sandboxes[h].elapsed) > TestTimeout) =>
      IF sandboxes[h].owner = i /\ mpc = "in_pr"
      THEN /\ ppc \in {"cleanup", "run_return", "analyze", "return"}
           /\ rt.status = "failed" /\ rt.exitCode = Some(TimeoutExit) /\ IsNone(pending)
           /\ ppc # "cleanup" => DeleteInvoked(h)
           /\ PastTests => result.testResults = Some(rt)
      ELSE /\ DeleteInvoked(h)
           /\ EntriesOf(sandboxes[h].owner) # {}
           /\ \A k \in EntriesOf(sandboxes[h].owner) :
                Get(pullRequests[k].testResults).status = "failed"
\* a run whose test command ran past the ceiling returned
C13_Witness ==
  /\ ppc = "return" /\ ~IsNone(sandbox) /\ sandboxes[Get(sandbox)].owner = i
  /\ sandboxes[Get(sandbox)].elapsed = Some(301)

\* C14: when create_sandbox fails, no materialize, install, execute or cleanup
\* call is made in that run and no sandbox exists for it; the run's record
\* carries testResults.status error with the provisioning error and no
\* testError, scoring still runs, and later runs provision normally.
C14_ProvisioningFailureIsLocal ==
  /\ Failed("create_sandbox") =>
       /\ \A k \in 1..Len(trace) :
            trace[k].op \notin {"setup_environment", "install_dependencies", "run_tests", "cleanup"}
       /\ \A h \in Handles : sandboxes[h].owner # i
       /\ ppc \in {"run_except", "analyze", "return"}
       /\ PastTests =>
            /\ Get(result.testResults).status = "error"
            /\ Get(result.testResults).error = "create_sandbox failed"
            /\ "testError" \notin DOMAIN result
       /\ ppc = "return" => Happened("get_pr_files")
  /\ \A j \in 1..Len(prs) : \A k \in EntriesOf(j) :
       ("error" \in DOMAIN Get(pullRequests[k].testResults)
        /\ Get(pullRequests[k].testResults).error = "create_sandbox failed")
         => \A h \in Handles : sandboxes[h].owner # j
\* provisioning failed for the first PR and the second PR ran its tests in a
\* sandbox of its own
C14_Witness ==
  /\ i = 2 /\ ppc = "return" /\ Succeeded("run_tests")
  /\ Get(pullRequests[1].testResults).status = "error"
  /\ Get(pullRequests[1].testResults).error = "create_sandbox failed"
  /\ Len(sandboxes) = 1 /\ sandboxes[1].owner = 2 /\ DeleteInvoked(1)

(* --------------------- properties of the batch driver ------------------ *)
\* the PR numbers of a list of entries
EntryIds(entries) == [k \in 1..Len(entries) |-> entries[k].id]
\* how many entries of the list belong to PR number n
EntryCount(entries, n) == Cardinality({k \in 1..Len(entries) : entries[k].id = n})
Min(a, b) == IF a < b THEN a ELSE b
\* main has left the set-up and the loop
Finished == mpc \in {"exit0", "exit1"} /\ prs # <<>>

\* C15: an exception of process_pr is caught by the loop: the PR gets an entry
\* with the error string and risk 0, the loop goes on with the next PR, and
\* the driver ends only after every PR of the listing was attempted.
C15_BatchContinuesAfterError ==
  /\ \A k \in 1..Len(pullRequests) :
       "error" \in DOMAIN pullRequests[k] =>
         (pullRequests[k].risk = 0 /\ \E j \in 1..(i - 1) : prs[j].number = pullRequests[k].id)
  /\ mpc \in {"loop", "in_pr"} => \A j \in 1..(i - 1) : EntriesOf(j) # {}
  /\ Finished => (i = Len(prs) + 1 /\ \A j \in 1..Len(prs) : EntriesOf(j) # {})
  /\ ppc = "raised" => (mpc = "in_pr" /\ ~IsNone(pending))
\* the first PR ended in an error entry and the second one was processed
C15_Witness ==
  /\ i = 3 /\ mpc = "loop" /\ Len(pullRequests) = 2
  /\ "error" \in DOMAIN pullRequests[1] /\ pullRequests[1].error = "get_pr_info failed"
  /\ "error" \notin DOMAIN pullRequests[2]

\* C16 (as claimed): the list written by the final save has exactly one entry
\* for every PR of the listing, whatever failed on the way.
C16_OneEntryPerPR ==
  mpc = "exit0" =>
    /\ ~IsNone(saved)
    /\ \A j \in 1..Len(prs) : EntryCount(Get(saved), prs[j].number) = 1
    /\ Len(Get(saved)) = Len(prs)

\* C17 (as claimed): with --max-prs N >= 1 and M PRs in the repository the
\* loop iterates the first min(N, M) PRs and the final document holds
\* min(N, M) entries.
C17_MaxPrsEntries ==
  (~IsNone(args.max_prs) /\ Get(args.max_prs) >= 1 /\ mpc \in {"loop", "in_pr", "exit0"}) =>
    /\ prs = SubSeq(repo_prs, 1, Min(Get(args.max_prs), Len(repo_prs)))
    /\ mpc = "exit0" => Len(Get(saved)) = Min(Get(args.max_prs), Len(repo_prs))

\* C18 (as claimed): once the loop has handled a multiple of SaveEvery PRs, a
\* partial write holding every entry so far was made: the document was
\* written, or the write was attempted and its failure recorded.
C18_CheckpointEveryFifth ==
  (mpc = "loop" /\ i > 1 /\ (i - 1) % SaveEvery = 0) =>
    \/ saved = Some(pullRequests)
    \/ pullRequests[Len(pullRequests)] = ErrorEntry(prs[i - 1], "save failed")

\* owner/repo: one slash with a name on either side
OwnerSlashRepo(name) ==
  LET parts == Split(name, "/") IN Len(parts) = 2 /\ parts[1] # <<>> /\ parts[2] # <<>>
\* no PR was listed or touched
NothingProcessed ==
  /\ prs = <<>> /\ i = 1 /\ pullRequests = <<>> /\ IsNone(saved)
  /\ ppc = "idle" /\ trace = <<>> /\ sandboxes = <<>>
\* C19 (as claimed): with a required credential missing or an identifier
\* that is not owner/repo, main never gets to the listing call or to a PR,
\* and it does not end with exit code 0.
C19_ConfigErrorFatalBeforeListing ==
  (MissingCredential \/ ~OwnerSlashRepo(args.repo)) =>
    (mpc \in {"start", "init_clients", "exit1"} /\ NothingProcessed)
\* C19 (amended): with a required credential missing or an identifier that
\* does not split into two parts at a slash, main exits with code 1 before
\* the listing call; an identifier with one slash and an empty owner or
\* repository name passes parse_repo_name, the listing call is made for it
\* and its failure ends main with code 1; in both cases no PR is processed.
C19_ConfigErrorFatalBeforeProcessing ==
  /\ (MissingCredential \/ IsNone(parse_repo_name(args.repo))) =>
       (mpc \in {"start", "init_clients", "exit1"} /\ NothingProcessed)
  /\ ~OwnerSlashRepo(args.repo) =>
       (mpc \in {"start", "init_clients", "list_prs", "exit1"} /\ NothingProcessed)
  /\ (~OwnerSlashRepo(args.repo) /\ mpc = "exit1") =>
       pending \in {Some("Invalid repo format"), Some("API key is required"), Some("list_prs failed")}
\* testing is on, the sandbox key is absent and main has exited with code 1
C19_Witness ==
  /\ ~skip_tests /\ DaytonaKey \notin environ /\ GithubKey \in environ
  /\ OwnerSlashRepo(args.repo)
  /\ mpc = "exit1" /\ pending = Some("API key is required")

\* some item on one of the three surfaces has an author whose login contains
\* the bot marker, whatever its case
HasBotAuthor(s) ==
  \E items \in {s.issue, s.review, s.reviews} : \E k \in 1..Len(items) :
     /\ "login" \in DOMAIN items[k]
     /\ IsBotLogin(items[k].login)

\* C20: check_coderabbit_review returns true if and only if at least one item
\* on any of the three surfaces has an author login that contains the bot
\* marker case-insensitively, and returns false when no item has one
C20_BotReviewIffAnySurface ==
  fn_ret # None =>
    /\ HasBotAuthor(Get(fn_arg)) <=> Get(fn_ret) = "True"
    /\ ~HasBotAuthor(Get(fn_arg)) => Get(fn_ret) = "False"

\* the keyword lists of the classification rule, in its order
RuleDanger == {<<"e","r","r","o","r">>, <<"b","u","g">>, <<"s","e","c","u","r","i","t","y">>, <<"v","u","l","n","e","r","a","b","i","l","i","t","y">>}
RuleWarning == {<<"w","a","r","n","i","n","g">>, <<"s","u","g","g","e","s","t","i","o","n">>, <<"i","m","p","r","o","v","e","m","e","n","t">>}
RuleSuccess == {<<"g","o","o","d">>, <<"a","p","p","r","o","v","e","d">>, <<"p","a","s","s","e","d">>}
\* some word of kws occurs in the body, whatever the case of its letters
Mentions(body, kws) ==
  \E kw \in kws : \E p \in 1..Len(body) :
     /\ p + Len(kw) - 1 <= Len(body)
     /\ Lower(SubSeq(body, p, p + Len(kw) - 1)) = kw
\* the finding made of a bot comment
IsFinding == Returned("extract_review_info") /\ Ret # None

\* C21: a bot comment is classified danger when its lower-cased body contains
\* error, bug, security or vulnerability; else warning when it contains warning,
\* suggestion or improvement; else success when it contains good, approved or
\* passed; else info.  A body containing "security" is always danger.
C21_ClassificationPrecedence ==
  IsFinding =>
    LET body == Arg.body
        type == Get(Ret).type
    IN /\ type = (IF Mentions(body, RuleDanger) THEN "danger"
                  ELSE IF Mentions(body, RuleWarning) THEN "warning"
                  ELSE IF Mentions(body, RuleSuccess) THEN "success"
                  ELSE "info")
       /\ Mentions(body, {<<"s","e","c","u","r","i","t","y">>}) => type = "danger"
\* a body with "SECURITY" and a success word was classified danger
C21_Witness ==
  /\ IsFinding
  /\ Arg.body = <<"a","p","p","r","o","v","e","d"," ","S","E","C","U","R","I","T","Y"," ">>
  /\ Get(Ret).type = "danger"

\* the text of a PR's body, empty for a PR without description
BodyText(pr) == IF IsNone(pr.body) THEN <<>> ELSE Get(pr.body)
\* pr is not the original one, its title or body holds a keyword and its
\* author's login holds the bot marker or "bot"
Qualifies(pr, original) ==
  /\ pr.number # original
  /\ Mentions(pr.title, TestPrKeywords(original)) \/ Mentions(BodyText(pr), TestPrKeywords(original))
  /\ Mentions(pr.login, {BotMarker, GenericBot})
SearchReturned == Returned("find_coderabbit_test_pr") /\ ~Ret.raised

\* C22: the companion-PR search never returns the original PR; every PR it
\* returns has a keyword in its title or body and an author whose login
\* contains the bot marker or "bot"
C22_CompanionIsBotKeywordMatch ==
  (SearchReturned /\ Ret.value # None) =>
    LET pr == Get(Ret.value) IN
    /\ pr.number # Arg.original
    /\ Mentions(pr.title, TestPrKeywords(Arg.original)) \/ Mentions(BodyText(pr), TestPrKeywords(Arg.original))
    /\ Mentions(pr.login, {BotMarker, GenericBot})
\* the original PR, by the bot and with a keyword in its title, came first:
\* the companion behind it was returned
C22_Witness ==
  /\ SearchReturned
  /\ Len(Arg.open) = 2
  /\ Arg.open[1].number = Arg.original
  /\ Qualifies(Arg.open[2], Arg.original)
  /\ Ret.value = Some(Arg.open[2])

\* the positions of the listing whose PR qualifies
Qualifying(listing, original) == {k \in 1..Len(listing) : Qualifies(listing[k], original)}
\* the first of them
FirstOf(listing, original) ==
  listing[CHOOSE k \in Qualifying(listing, original) : \A j \in Qualifying(listing, original) : k <= j]
\* what the search is to return
Expected(a) ==
  IF Qualifying(a.open, a.original) # {} THEN Some(FirstOf(a.open, a.original))
  ELSE IF Qualifying(Recent(a.closed), a.original) # {} THEN Some(FirstOf(Recent(a.closed), a.original))
  ELSE None

\* C23: the search returns the first qualifying open PR in listing order; if no
\* open PR qualifies, the first qualifying PR among the first 10 closed ones;
\* none when nothing qualifies, and never a closed PR at position 11 or later
C23_FirstMatchOpenThenClosed ==
  Returned("find_coderabbit_test_pr") => (~Ret.raised /\ Ret.value = Expected(Arg))

\* the file is Python source the parser accepts / rejects
IsPython(f) == EndsWith(f.path, PyExt)
Parseable(f) == IsPython(f) /\ BrokenLine \notin Range(Split(f.content, "\n"))
Unparseable(f) == IsPython(f) /\ BrokenLine \in Range(Split(f.content, "\n"))
\* the module path m is in the result, with its first segment when dotted
Yields(m) ==
  /\ m \in Ret
  /\ \A d \in 1..Len(m) : (m[d] = "." /\ \A j \in 1..(d - 1) : m[j] # ".") => SubSeq(m, 1, d - 1) \in Ret
ImportsReturned == Returned("parse_imports_from_test_files")

\* C24: import extraction returns, for every import statement of every
\* parseable test file, the imported module path and, for a dotted path, also
\* its first segment: `from app.auth import login` yields app.auth and app
C24_ImportsWithFirstSegment ==
  ImportsReturned =>
    \A k \in 1..Len(Arg) : Parseable(Arg[k]) => \A m \in Arg[k].modules : Yields(m)
\* a parseable file with `from app.auth import login` gave app.auth and app
C24_Witness ==
  /\ ImportsReturned
  /\ Len(Arg) = 1
  /\ Arg[1].content = <<"f","r","o","m"," ","a","p","p",".","a","u","t","h"," ","i","m","p","o","r","t"," ","l","o","g","i","n">>
  /\ {<<"a","p","p",".","a","u","t","h">>, <<"a","p","p">>} \subseteq Ret

\* C25: a test file with a syntax error does not make import extraction raise
\* or drop the other files' imports; each line `import M` and `from M import x`
\* of that file contributes M, plus M's first segment when dotted
C25_FallbackCapturesModules ==
  ImportsReturned =>
    \A k \in 1..Len(Arg) :
       /\ Parseable(Arg[k]) => \A m \in Arg[k].modules : Yields(m)
       /\ Unparseable(Arg[k]) => \A m \in Arg[k].modules : Yields(m)

ResolverDone == Returned("fetch_source_files_from_imports")
\* every imported name is a standard-library or test-framework name
OnlyStdImports == Arg.imported # <<>> /\ \A k \in 1..Len(Arg.imported) : Arg.imported[k] \in StdModules
\* the paths of the returned FileSet
ResolvedPaths == {Ret.files[k].path : k \in 1..Len(Ret.files)}

C27_NoTestNoDuplicatePaths ==
  ResolverDone =>
    \A p \in ResolvedPaths :
       /\ ~Mentions(p, {TestWord})
       /\ \A k \in 1..Len(Arg.existing) : Arg.existing[k].path # p
\* on the changed-files path, with app and payment imported and payment.py
\* already fetched: tests/app.py and payment.py were left out, app/auth.py taken
C27_Witness ==
  /\ ResolverDone
  /\ Arg.tree = None /\ Arg.changed # None
  /\ Arg.imported = <<<<"a","p","p">>, <<"p","a","y","m","e","n","t">>>>
  /\ Arg.existing # <<>>
  /\ {<<"t","e","s","t","s","/","a","p","p",".","p","y">>, <<"p","a","y","m","e","n","t",".","p","y">>} \subseteq Range(Get(Arg.changed))
  /\ ResolvedPaths = {<<"a","p","p","/","a","u","t","h",".","p","y">>, <<"a","p","p","/","m","o","d","e","l","s",".","p","y">>}

\* C28: for each imported module at most one file is fetched: after the first
\* file matching a module no further file is fetched for it, and the returned
\* FileSet holds at most one file per module
C28_OneFilePerModule ==
  ResolverDone =>
    \A j, k \in 1..Len(Ret.calls) :
       (Ret.calls[j].ok /\ Ret.calls[k].ok /\ Ret.calls[j].module = Ret.calls[k].module) => j = k

\* C29: source resolution never raises: when the branch listing cannot be
\* retrieved it goes on with the PR's changed files, and whatever call of the
\* code-hosting API fails it returns the files fetched successfully
C29_ResolutionNeverRaises ==
  ResolverDone => ~Ret.raised

\* the paths of a FileSet
PathsIn(fs) == {fs[k].path : k \in 1..Len(fs)}
\* fs is the union of code and test, the test content winning on a common path,
\* each path once
IsUnionTestFirst(fs, code, test) ==
  /\ PathsIn(fs) = PathsIn(code) \cup PathsIn(test)
  /\ Len(fs) = Cardinality(PathsIn(fs))
  /\ \A k \in 1..Len(fs) :
       IF fs[k].path \in PathsIn(test)
       THEN \E j \in 1..Len(test) : test[j] = fs[k]
       ELSE \E j \in 1..Len(code) : code[j] = fs[k]
MergeDone == Returned("setup_and_detect")

\* C30: the file set materialized in the sandbox and the file set given to
\* command detection are the union of the code files and the test files, with
\* the test file's content for every path present in both, and every path of
\* either set exactly once
C30_MergeTestFilesWin ==
  MergeDone =>
    /\ IsUnionTestFirst(Ret.all_files, Arg.code_files, Arg.test_files)
    /\ IsUnionTestFirst(Ret.detect_arg, Arg.code_files, Arg.test_files)
\* conftest.py was in both sets: the merged set has it once, with the test content
C30_Witness ==
  /\ MergeDone
  /\ <<"c","o","n","f","t","e","s","t",".","p","y">> \in PathsIn(Arg.code_files) \cap PathsIn(Arg.test_files)
  /\ Len(Arg.code_files) = 2 /\ Len(Arg.test_files) = 2
  /\ Len(Ret.all_files) = 3
  /\ \E k \in 1..3 : Ret.all_files[k] = [path |-> <<"c","o","n","f","t","e","s","t",".","p","y">>, content |-> <<"i","m","p","o","r","t"," ","p","y","t","e","s","t">>]

\* the files of fs whose path contains "test" or "spec"
TestLike(fs) == {k \in 1..Len(fs) : Mentions(fs[k].path, {<<"t","e","s","t">>, <<"s","p","e","c">>})}
\* one of them has the extension / holds the word
SomeEndsIn(fs, exts) == \E k \in TestLike(fs) : \E ext \in exts : EndsWith(fs[k].path, ext)
SomeHolds(fs, word) == \E k \in TestLike(fs) : HasSub(fs[k].content, word)
DetectDone == Returned("detect_test_command")

\* C31: command detection looks only at files whose path contains "test" or
\* "spec".  If one of them ends in .py: pytest when "pytest" occurs in such a
\* file's text, else unittest discover when "unittest" occurs, else pytest.
\* Otherwise npm test if one is .js/.ts, otherwise mvn test if one is .java,
\* otherwise pytest.  The result is always one of the four commands.
C31_DetectTestCommand ==
  DetectDone =>
    /\ Ret \in {"python -m pytest", "python -m unittest discover", "npm test", "mvn test"}
    /\ Ret = (IF SomeEndsIn(Arg, {<<".","p","y">>})
               THEN (IF SomeHolds(Arg, <<"p","y","t","e","s","t">>) THEN "python -m pytest"
                     ELSE IF SomeHolds(Arg, <<"u","n","i","t","t","e","s","t">>) THEN "python -m unittest discover"
                     ELSE "python -m pytest")
               ELSE IF SomeEndsIn(Arg, {<<".","j","s">>, <<".","t","s">>}) THEN "npm test"
               ELSE IF SomeEndsIn(Arg, {<<".","j","a","v","a">>}) THEN "mvn test"
               ELSE "python -m pytest")
\* a Python test file naming unittest next to a JavaScript spec: unittest discover
C31_Witness ==
  /\ DetectDone
  /\ Len(Arg) = 2
  /\ Arg[1] = [path |-> <<"a","p","p","/","S","p","e","c","_","b",".","j","s">>, content |-> <<"x"," ","="," ","1">>]
  /\ Arg[2] = [path |-> <<"t","e","s","t","s","/","t","e","s","t","_","a",".","p","y">>, content |-> <<"i","m","p","o","r","t"," ","u","n","i","t","t","e","s","t">>]
  /\ Ret = "python -m unittest discover"

(* ------------------------------ C32 .. C40 ------------------------------ *)
\* the last two collaborator calls of the run
LastCalls(a, b) ==
  /\ Len(trace) >= 2
  /\ trace[Len(trace) - 1] = a
  /\ trace[Len(trace)] = b

\* C32: analyze_pr never raises; when the scoring call fails it returns risk
\* 50 (with confidence 0 and a reasoning naming the error), also for PR
\* metadata whose body is missing.
C32_ScorerNeverRaises ==
  /\ \A k \in 1..Len(trace) : trace[k].op = "analyze_pr" => trace[k].ok
  /\ (ppc = "return" /\ LastCalls(Event("llm_complete", FALSE), Event("analyze_pr", TRUE)))
       => result.risk = DefaultRisk

\* C33: the risk of every result process_pr builds, and of every recorded
\* entry, is an integer between 0 and 100 whatever the model answered.
C33_RiskInRange ==
  /\ "risk" \in DOMAIN result => result.risk \in 0..100
  /\ \A k \in 1..Len(pullRequests) : pullRequests[k].risk \in 0..100

UpdatesDone == Returned("apply_analysis")
\* the reviewUpdates mapping of the answer, if the answer has one
UpdatesOf(analysis) ==
  IF analysis.kind = "object" /\ ~IsNone(analysis.reviewUpdates) /\ Get(analysis.reviewUpdates).kind = "object"
  THEN analysis.reviewUpdates ELSE None
IsUpdateKey(analysis, name) == ~IsNone(UpdatesOf(analysis)) /\ HasKey(Get(UpdatesOf(analysis)), name)
\* finding new is finding old with every member of a mapping entry written over it
Overwritten(old, new, entry) ==
  /\ \A j \in 1..Len(entry.members) :
       /\ entry.members[j].key \in DOMAIN new
       /\ new[entry.members[j].key] = ValueAt(entry, entry.members[j].key)
  /\ \A f \in DOMAIN new : HasKey(entry, f) \/ (f \in DOMAIN old /\ new[f] = old[f])

\* C34: scoring changes a finding only if its name is exactly a key of
\* reviewUpdates; such a finding has the fields of the entry (severity,
\* description) written over its own and keeps its other fields; a finding
\* whose name is not a key is left as it was; the findings keep their number
\* and their positions.
C34_UpdatesByExactName ==
  UpdatesDone =>
    LET old == Arg.result.coderabbitReviews
        new == Ret.coderabbitReviews
    IN /\ Len(new) = Len(old)
       /\ \A k \in 1..Len(old) :
            IF IsUpdateKey(Arg.analysis, old[k].name)
            THEN LET entry == ValueAt(Get(UpdatesOf(Arg.analysis)), old[k].name)
                 IN entry.kind = "object" => Overwritten(old[k], new[k], entry)
            ELSE new[k] = old[k]
\* two findings, the second answer of Analyses named neither, the first named both
C34_Witness ==
  /\ UpdatesDone
  /\ Len(Arg.result.coderabbitReviews) = 2
  /\ IsUpdateKey(Arg.analysis, ReviewName)
  /\ HasKey(Get(UpdatesOf(Arg.analysis)), "Other Review")
  /\ \A k \in 1..2 : Ret.coderabbitReviews[k]["type"] = "info"
                     /\ Ret.coderabbitReviews[k].description = Arg.result.coderabbitReviews[k].description
  /\ Arg.result.coderabbitReviews[1]["type"] = "success"

\* C35: the description of a finding is the comment body when the body has at
\* most 200 characters; otherwise it is the first 200 characters of the body
\* followed by the three-dot marker.  It never has more than 203 characters.
C35_DescriptionTruncated ==
  IsFinding =>
    LET body == Arg.body
        d == Get(Ret).description
    IN /\ Len(body) <= 200 => d = body
       /\ Len(body) > 200 =>
            /\ Len(d) = 203
            /\ \A k \in 1..200 : d[k] = body[k]
            /\ \A k \in 201..203 : d[k] = "."
       /\ Len(d) <= 203
\* a body of 201 digits is cut after the 200th
C35_Witness ==
  /\ IsFinding
  /\ Arg.body = LongBody(201)
  /\ Len(Get(Ret).description) = 203
  /\ Get(Ret).description[200] = "0"

\* how often delete was invoked on sandbox h
DeleteCount(h) == Cardinality({k \in 1..Len(sandboxes[h].calls) : sandboxes[h].calls[k] = "delete"})

\* C36: on every sandbox create_sandbox returned, delete is invoked exactly
\* once by the time its run is over and never twice, and no call is made on a
\* sandbox after its delete; this holds when a later run's provisioning fails
\* while the shared TestRunner still holds the earlier handle.
C36_DeleteOnceNoUseAfter ==
  \A h \in Handles :
    /\ DeleteCount(h) <= 1
    /\ \A k \in 1..Len(sandboxes[h].calls) : sandboxes[h].calls[k] = "delete" => k = Len(sandboxes[h].calls)
    /\ (sandboxes[h].owner < i \/ mpc # "in_pr" \/ PastCleanup) => DeleteCount(h) = 1
\* the second run's provisioning failed with the first run's handle still held
C36_Witness ==
  /\ i = 2 /\ mpc = "in_pr" /\ ppc = "return"
  /\ Failed("create_sandbox")
  /\ Len(sandboxes) = 1 /\ sandbox = Some(1)
  /\ sandboxes[1].owner = 1
  /\ DeleteCount(1) = 1
  /\ Len(sandboxes[1].calls) > 1

\* process_pr holds the record _run_tests_in_daytona returned
HasRunRecord == "testResults" \in DOMAIN result /\ ~IsNone(result.testResults)
RunRecord == Get(result.testResults)

\* C37: the record _run_tests_in_daytona returns has status passed, failed,
\* error or no_tests, never unknown; passed exactly when run_tests completed
\* with exit code 0, failed exactly when it completed with another exit code;
\* with status error or no_tests run_tests did not complete and exitCode is null.
C37_StatusMatchesExecution ==
  HasRunRecord =>
    /\ RunRecord.status \in {"passed", "failed", "error", "no_tests"}
    /\ RunRecord.status = "passed" <=> (Succeeded("run_tests") /\ RunRecord.exitCode = Some(0))
    /\ RunRecord.status = "failed" <=>
         (Succeeded("run_tests") /\ ~IsNone(RunRecord.exitCode) /\ Get(RunRecord.exitCode) # 0)
    /\ RunRecord.status \in {"error", "no_tests"} => (IsNone(RunRecord.exitCode) /\ ~Succeeded("run_tests"))
\* the test command was started and execute raised: error without exit code
C37_Witness ==
  /\ HasRunRecord
  /\ Failed("run_tests")
  /\ RunRecord.status = "error"
  /\ IsNone(RunRecord.exitCode)
  /\ RunRecord.output = ""

\* the items of a surface the bot wrote, in the order of the surface
BotAuthored(items) == SelectSeq(items, LAMBDA c : HasSub(Lower(c.login), <<"c","o","d","e","r","a","b","b","i","t">>))
\* the bot check and, after a positive answer, the comment harvest are over
HarvestOver ==
  /\ Succeeded("check_coderabbit_review")
  /\ ppc # "get_comments"
  /\ ~Failed("get_coderabbit_comments")

\* C38: the findings of a result are, one for one and in order, the bot's
\* issue comments followed by the bot's review comments; a formal review of
\* the bot gives no finding, so a PR with only a formal review of the bot has
\* a positive bot check and no finding, and a PR with a negative bot check
\* has no finding.
C38_FindingsFollowComments ==
  ("coderabbitReviews" \in DOMAIN result /\ HarvestOver) =>
    LET expected == BotAuthored(surfaces.issue) \o BotAuthored(surfaces.review)
        findings == result.coderabbitReviews
        hasBotReview == Happened("get_coderabbit_comments")
    IN /\ Len(findings) = Len(expected)
       /\ i \notin scored =>
            \A k \in 1..Len(expected) :
              /\ findings[k].name = "Coderabbit Review"
              /\ findings[k].description = expected[k].body
       /\ hasBotReview <=> (BotAuthored(surfaces.issue) \o BotAuthored(surfaces.review)
                              \o BotAuthored(surfaces.reviews)) # <<>>
       /\ ~hasBotReview => findings = <<>>
\* the bot wrote a formal review only: the check is positive, the harvest ran, no finding
C38_Witness ==
  /\ ppc = "return"
  /\ HarvestOver
  /\ Succeeded("get_coderabbit_comments")
  /\ BotAuthored(surfaces.issue) \o BotAuthored(surfaces.review) = <<>>
  /\ BotAuthored(surfaces.reviews) # <<>>
  /\ result.coderabbitReviews = <<>>

\* the calls _run_tests_in_daytona makes before the teardown
SandboxStageOps == {"prepare_code_files", "prepare_test_files", "fetch_source_files_from_imports",
                    "create_sandbox", "setup_environment", "install_dependencies", "run_tests"}
SandboxStageFailed == \E op \in SandboxStageOps : Failed(op)

\* C39: a result carries testError only when the trigger post or the
\* companion search raised.  A failure while fetching files, resolving
\* imports, provisioning, materializing, installing or executing is reported
\* in testResults (status error and an error string) and leaves no testError;
\* generatedTests is non-empty only with status passed or failed.
C39_SandboxFailuresStayInTestResults ==
  "generatedTests" \in DOMAIN result =>
    /\ "testError" \in DOMAIN result =>
         (Failed("trigger_unit_test_generation") \/ Failed("find_coderabbit_test_pr"))
    /\ (SandboxStageFailed /\ PastTests) =>
         /\ HasRunRecord
         /\ RunRecord.status = "error"
         /\ "error" \in DOMAIN RunRecord /\ RunRecord.error # ""
         /\ "testError" \notin DOMAIN result
    /\ result.generatedTests # <<>> => (HasRunRecord /\ RunRecord.status \in {"passed", "failed"})
\* installing the dependencies raised: error record with its message, no testError
C39_Witness ==
  /\ ppc = "return"
  /\ Failed("install_dependencies")
  /\ HasRunRecord
  /\ RunRecord.status = "error"
  /\ RunRecord.error = "install_dependencies failed"
  /\ "testError" \notin DOMAIN result
  /\ result.generatedTests = <<>>

\* what _run_tests_in_daytona does after the file fetches
AfterFetchOps == {"fetch_source_files_from_imports", "create_sandbox", "setup_environment",
                  "install_dependencies", "run_tests", "cleanup"}
\* the companion PR gave no test file
NoTestFiles == Succeeded("prepare_test_files") /\ test_files = <<>>

\* C40: when the companion PR yields no test file, _run_tests_in_daytona
\* returns status no_tests; it resolves no import, provisions no sandbox and
\* executes nothing, so the run leaves no sandbox behind.
C40_NoTestsNoSandbox ==
  NoTestFiles =>
    /\ \A op \in AfterFetchOps : ~Happened(op)
    /\ \A h \in Handles : sandboxes[h].owner # i
    /\ rt.status = "no_tests"
    /\ PastTests => (HasRunRecord /\ RunRecord.status = "no_tests" /\ IsNone(RunRecord.exitCode)
                       /\ RunRecord.generatedTests = <<>> /\ "error" \notin DOMAIN RunRecord
                       /\ "testError" \notin DOMAIN result)
\* the run is over with status no_tests and no sandbox was ever provisioned
C40_Witness ==
  /\ ppc = "return"
  /\ NoTestFiles
  /\ Succeeded("prepare_code_files")
  /\ HasRunRecord /\ RunRecord.status = "no_tests"
  /\ sandboxes = <<>>

====
